---- MODULE Spec2Model ----
(***************************************************************************)
(* Retrieval-and-context-assembly pipeline of the Nextleap FAQ chatbot:    *)
(* ConversationMemory (src/src/query/conversation_memory.py) and           *)
(* QueryHandler (src/src/query/query_handler.py) with the answer           *)
(* composition of GeminiLLMHandler (src/src/query/llm_handler.py).         *)
(* Python strings are TLC strings; Len, \o and SubSeq act on them.         *)
(***************************************************************************)
EXTENDS Integers, Sequences, FiniteSets, TLC

(***************************************************************************)
(* Bounds of the model.                                                    *)
(***************************************************************************)
\* largest max_messages a ConversationMemory is constructed with
MaxCapacity == 2
\* number of add_message calls made in a run (the logical clock stops there)
MaxClock == 4
\* largest n_results passed to a direct retrieve_context call
MaxResults == 3
\* largest last_n passed to a direct get_history call
MaxLastN == 1
\* runs of the server's initialisation block
MaxAttempts == 2
\* ranked chunks handed to a direct format_answer call
MaxContexts == 2
\* items of a curriculum list
MaxItems == 2
\* course records handed to chunk_all_courses
MaxCourses == 2
\* chunks, and embeddings, handed to a direct add_chunks call
MaxChunks == 2

(***************************************************************************)
(* Python string operations.                                               *)
(***************************************************************************)
\* Python None, for an optional string (a source_url, a course filter)
None == "<None>"

Min(a, b) == IF a < b THEN a ELSE b

Max(a, b) == IF a > b THEN a ELSE b

\* one character of str.lower()
LowerChar(c) ==
    CASE c = "A" -> "a" [] c = "B" -> "b" [] c = "C" -> "c" [] c = "D" -> "d"
      [] c = "E" -> "e" [] c = "F" -> "f" [] c = "G" -> "g" [] c = "H" -> "h"
      [] c = "I" -> "i" [] c = "J" -> "j" [] c = "K" -> "k" [] c = "L" -> "l"
      [] c = "M" -> "m" [] c = "N" -> "n" [] c = "O" -> "o" [] c = "P" -> "p"
      [] c = "Q" -> "q" [] c = "R" -> "r" [] c = "S" -> "s" [] c = "T" -> "t"
      [] c = "U" -> "u" [] c = "V" -> "v" [] c = "W" -> "w" [] c = "X" -> "x"
      [] c = "Y" -> "y" [] c = "Z" -> "z"
      [] OTHER -> c

\* one character of str.upper()
UpperChar(c) ==
    CASE c = "a" -> "A" [] c = "b" -> "B" [] c = "c" -> "C" [] c = "d" -> "D"
      [] c = "e" -> "E" [] c = "f" -> "F" [] c = "g" -> "G" [] c = "h" -> "H"
      [] c = "i" -> "I" [] c = "j" -> "J" [] c = "k" -> "K" [] c = "l" -> "L"
      [] c = "m" -> "M" [] c = "n" -> "N" [] c = "o" -> "O" [] c = "p" -> "P"
      [] c = "q" -> "Q" [] c = "r" -> "R" [] c = "s" -> "S" [] c = "t" -> "T"
      [] c = "u" -> "U" [] c = "v" -> "V" [] c = "w" -> "W" [] c = "x" -> "X"
      [] c = "y" -> "Y" [] c = "z" -> "Z"
      [] OTHER -> c

RECURSIVE lower(_)
\* str.lower(): every character lower-cased (computed by halves, which keeps
\* the evaluation shallow on long texts)
lower(s) ==
    IF Len(s) = 0 THEN ""
    ELSE IF Len(s) = 1 THEN LowerChar(s)
    ELSE lower(SubSeq(s, 1, Len(s) \div 2))
            \o lower(SubSeq(s, Len(s) \div 2 + 1, Len(s)))

\* str.capitalize(): first character upper-cased, the rest lower-cased
capitalize(s) ==
    IF s = "" THEN ""
    ELSE UpperChar(SubSeq(s, 1, 1)) \o lower(SubSeq(s, 2, Len(s)))

\* Python `k in s` on strings: k occurs in s as a substring
In(k, s) ==
    \E i \in 1..(Len(s) - Len(k) + 1) : SubSeq(s, i, i + Len(k) - 1) = k

RECURSIVE join(_, _)
\* sep.join(parts)
join(sep, parts) ==
    IF parts = <<>> THEN ""
    ELSE IF Len(parts) = 1 THEN parts[1]
    ELSE parts[1] \o sep \o join(sep, Tail(parts))

Whitespace == {" ", "\n", "\t", "\r"}

RECURSIVE lstrip(_)
lstrip(s) ==
    IF s # "" /\ SubSeq(s, 1, 1) \in Whitespace
    THEN lstrip(SubSeq(s, 2, Len(s)))
    ELSE s

RECURSIVE rstrip(_)
rstrip(s) ==
    IF s # "" /\ SubSeq(s, Len(s), Len(s)) \in Whitespace
    THEN rstrip(SubSeq(s, 1, Len(s) - 1))
    ELSE s

\* str.strip()
strip(s) == lstrip(rstrip(s))

\* str.startswith(prefix)
startswith(s, prefix) ==
    Len(prefix) <= Len(s) /\ SubSeq(s, 1, Len(prefix)) = prefix

RECURSIVE split(_, _)
\* str.split(sep) for a non-empty separator
split(s, sep) ==
    IF In(sep, s)
    THEN LET i == CHOOSE j \in 1..(Len(s) - Len(sep) + 1) :
                    /\ SubSeq(s, j, j + Len(sep) - 1) = sep
                    /\ \A k \in 1..(j - 1) : SubSeq(s, k, k + Len(sep) - 1) # sep
         IN  <<SubSeq(s, 1, i - 1)>> \o split(SubSeq(s, i + Len(sep), Len(s)), sep)
    ELSE <<s>>

\* Python list[:n] for n >= 0
Take(seq, n) == SubSeq(seq, 1, Min(n, Len(seq)))

\* Python list[-n:] for n > 0
LastN(seq, n) == SubSeq(seq, Max(1, Len(seq) - n + 1), Len(seq))

(***************************************************************************)
(* State.                                                                  *)
(***************************************************************************)
VARIABLES
    max_messages,   \* ConversationMemory.max_messages
    conversations,  \* ConversationMemory.conversations: session_id -> deque
    clock,          \* datetime.now(): the number of messages stamped so far
    appended,       \* history variable: per session, every message appended
                    \* since the session was created or last cleared
    last,           \* history variable: the operation that ran last
    out,            \* the value the last direct memory call returned
    collection,     \* VectorDB.collection: the ids of the stored chunks
    llm_handler,    \* QueryHandler.llm_handler is set (not None)
    call,           \* the frame of a direct retrieve_context call
    req,            \* per session, the frame of its answer_query call
    compose,        \* the frame of a direct format_answer call
    server,         \* the globals of api/server.py and its environment
    chunker,        \* the frame of a direct CourseChunker call
    vector_db,      \* the records VectorDB.add_chunks wrote to its
                    \* collection, and the frame of a direct VectorDB call
    threads         \* per thread, the frame of its add_message call

vars == <<max_messages, conversations, clock, appended, last, out,
          collection, llm_handler, call, req, compose, server, chunker,
          vector_db, threads>>

SessionIds == {"s1", "s2"}

Roles == {"user", "assistant"}

(***************************************************************************)
(* ConversationMemory.                                                     *)
(***************************************************************************)
\* mutant: a plain list, which never evicts
DequeAppend_unbounded(d, x, maxlen) == Append(d, x)

\* collections.deque(maxlen=maxlen).append(x): a full deque drops its oldest
DequeAppend(d, x, maxlen) ==
    IF maxlen = 0 THEN d
    ELSE IF Len(d) >= maxlen THEN Append(Tail(d), x)
    ELSE Append(d, x)

\* the message dictionary add_message builds; `metadata or {}` is <<>> for {}
Message(role, content, metadata, now) ==
    [role |-> role, content |-> content, timestamp |-> now,
     metadata |-> metadata]

\* ConversationMemory.add_message: the conversations dictionary afterwards
add_message(convs, maxlen, session_id, role, content, metadata, now) ==
    LET created == IF session_id \in DOMAIN convs THEN convs
                   ELSE [s \in DOMAIN convs \cup {session_id} |->
                            IF s = session_id THEN <<>> ELSE convs[s]]
    IN  [created EXCEPT ![session_id] =
            DequeAppend(@, Message(role, content, metadata, now), maxlen)]

\* ConversationMemory.get_history; last_n is <<>> for None, <<n>> for n
get_history(convs, session_id, last_n) ==
    IF session_id \notin DOMAIN convs THEN <<>>
    ELSE LET history == convs[session_id]
         IN  IF last_n # <<>> /\ last_n[1] # 0
             THEN LastN(history, last_n[1])
             ELSE history

\* mutant: the text is rendered without the newest message
get_conversation_context_stale(convs, session_id) ==
    LET history == get_history(convs, session_id, <<>>)
        context_parts == [i \in 1..(Len(history) - 1) |->
            capitalize(history[i].role) \o ": " \o history[i].content]
    IN  IF Len(history) <= 1 THEN "" ELSE join("\n", context_parts)

\* ConversationMemory.get_conversation_context
get_conversation_context(convs, session_id) ==
    LET history == get_history(convs, session_id, <<>>)
        context_parts == [i \in 1..Len(history) |->
            capitalize(history[i].role) \o ": " \o history[i].content]
    IN  IF history = <<>> THEN "" ELSE join("\n", context_parts)

\* mutant: clearing one session empties the whole dictionary
clear_session_all(convs, session_id) == <<>>

\* ConversationMemory.clear_session: the conversations dictionary afterwards
clear_session(convs, session_id) ==
    IF session_id \in DOMAIN convs
    THEN [s \in DOMAIN convs \ {session_id} |-> convs[s]]
    ELSE convs

(***************************************************************************)
(* The knowledge base: chunks as CourseChunker emits them and VectorDB     *)
(* stores them (a metadata field a chunk type does not carry, or one that  *)
(* add_chunks normalised from None, is the empty string).                  *)
(***************************************************************************)
Chunk(content, type, cohort_name, source_url, cost, start_date, emi) ==
    [content |-> content,
     metadata |-> [type |-> type, cohort_name |-> cohort_name,
                   source_url |-> source_url, cost |-> cost,
                   batch_start_date |-> start_date,
                   emi_options |-> emi]]

DataAnalyst == "Data Analyst Fellowship"

ProductManagement == "Product Management Fellowship"

ChunkIds == {"da_cohort", "da_batch", "da_payment", "pm_cohort", "pm_batch"}

\* the stored document and metadata of each chunk id
ChunkOf(id) ==
    CASE id = "da_cohort" ->
            Chunk("Cohort: " \o DataAnalyst \o "\nDescription: Learn SQL",
                  "cohort", DataAnalyst, "https://x/da", "", "", "")
      [] id = "da_batch" ->
            Chunk("Batch Information for " \o DataAnalyst \o ":\nCost: 32,999",
                  "batch", DataAnalyst, "https://x/da", "32,999", "", "")
      [] id = "da_payment" ->
            Chunk("Payment Options for " \o DataAnalyst
                    \o ":\nEMI Options:\n- ₹11,000 x 3 months",
                  "payment", DataAnalyst, "https://x/da", "", "",
                  "₹11,000 x 3 months")
      [] id = "pm_cohort" ->
            Chunk("Cohort: " \o ProductManagement \o "\nDescription: Build",
                  "cohort", ProductManagement, "https://x/pm", "", "", "")
      [] id = "pm_batch" ->
            Chunk("Batch Information for " \o ProductManagement
                    \o ":\nStart Date: Jan 3\nCost: 49,999",
                  "batch", ProductManagement, "https://x/pm", "49,999", "Jan 3",
                  "")
      [] id = "pm_payment" ->
            Chunk("Payment Options for " \o ProductManagement
                    \o ":\nEMI Options:\n- EMI starts at ₹4,999/month",
                  "payment", ProductManagement, "https://x/pm", "", "",
                  "EMI starts at ₹4,999/month")

\* the orderings of a set of chunk ids
Orderings(ids) ==
    {f \in [1..Cardinality(ids) -> ids] :
        \A i, j \in 1..Cardinality(ids) : f[i] = f[j] => i = j}

\* VectorDB.search: up to n_results stored chunks, nearest first; which chunk
\* is nearest to a query embedding is the embedding model's and the index's
\* business, so every ranking of the stored chunks is a possible answer.
\* The distance of a hit is modelled by its rank.
search(ranking, n_results) ==
    [i \in 1..Min(n_results, Len(ranking)) |->
        [document |-> ChunkOf(ranking[i]).content,
         metadata |-> ChunkOf(ranking[i]).metadata,
         distance |-> i]]

(***************************************************************************)
(* QueryHandler.retrieve_context.                                          *)
(***************************************************************************)
\* the number of candidates retrieve_context asks the index for
OverFetch(n_results) == Max(n_results * 2, 20)

\* what embedder.generate_embedding can do: return a vector, or raise
EmbedOutcomes == {"ok", "EmbeddingError"}

\* what vector_db.search can do: return its hits, or raise
SearchOutcomes == {"ok", "IndexError"}

\* mutant: a failed embedding is tried once more, and the search runs anyway
retrieve_context_io_retry(embedded, searched) ==
    [embed_calls |-> IF embedded = "ok" THEN 1 ELSE 2,
     search_calls |-> 1,
     raised |-> IF embedded # "ok" THEN embedded
                ELSE IF searched # "ok" THEN searched ELSE None]

\* the calls retrieve_context makes on its two collaborators, in order, and
\* the error that leaves it uncaught (None: it goes on to format the hits)
retrieve_context_io(embedded, searched) ==
    [embed_calls |-> 1,
     search_calls |-> IF embedded = "ok" THEN 1 ELSE 0,
     raised |-> IF embedded # "ok" THEN embedded
                ELSE IF searched # "ok" THEN searched ELSE None]

\* mutant: the course filter is handed to the index as a metadata filter
retrieve_context_calls_filtered(query, n_results, course_filter, embedded) ==
    <<[op |-> "generate_embedding", text |-> query]>>
      \o (IF embedded = "ok"
          THEN <<[op |-> "search", n_results |-> OverFetch(n_results),
                  filter_dict |-> course_filter]>>
          ELSE <<>>)

\* the calls retrieve_context makes on the embedder and on the index, in the
\* order it makes them, with their arguments (search is not given a
\* filter_dict, which is None by default)
retrieve_context_calls(query, n_results, course_filter, embedded) ==
    <<[op |-> "generate_embedding", text |-> query]>>
      \o (IF embedded = "ok"
          THEN <<[op |-> "search", n_results |-> OverFetch(n_results),
                  filter_dict |-> None]>>
          ELSE <<>>)

\* "Format results": the contexts list built from the search results
format_results(search_results) ==
    [i \in 1..Len(search_results) |->
        [content |-> search_results[i].document,
         metadata |-> search_results[i].metadata,
         distance |-> search_results[i].distance]]

\* `if course_filter:` is false for None and for the empty string
Truthy(str) == str # None /\ str # ""

\* mutant: the cohort name is compared without lower-casing it
MatchesCourse_case_sensitive(c, filter_lower) ==
    In(filter_lower, c.metadata.cohort_name)

\* course_filter.lower() in c["metadata"]["cohort_name"].lower()
MatchesCourse(c, filter_lower) ==
    In(filter_lower, lower(c.metadata.cohort_name))

\* mutant: the course filter is ignored
course_filter_step_ignored(contexts, course_filter) == contexts

\* "Filter by course if specified"
course_filter_step(contexts, course_filter) ==
    IF Truthy(course_filter)
    THEN LET filter_lower == lower(course_filter)
             matching_course ==
                 SelectSeq(contexts, LAMBDA c : MatchesCourse(c, filter_lower))
             other_courses ==
                 SelectSeq(contexts, LAMBDA c : ~MatchesCourse(c, filter_lower))
         IN  matching_course \o other_courses
    ELSE contexts

BatchKeywords == {"start", "date", "when", "cost", "price", "fee"}

PaymentKeywords == {"emi", "installment", "payment", "pay"}

\* any(keyword in query_lower for keyword in keywords)
AnyKeyword(keywords, query_lower) == \E keyword \in keywords : In(keyword, query_lower)

\* mutant: batch chunks are moved to the front whatever the query says
batch_step_always(contexts, query_lower) ==
    SelectSeq(contexts, LAMBDA c : c.metadata.type = "batch")
        \o SelectSeq(contexts, LAMBDA c : c.metadata.type # "batch")

\* mutant: the batch reordering is left out
batch_step_skipped(contexts, query_lower) == contexts

\* "Prioritize batch chunks for date/start/cost queries"
batch_step(contexts, query_lower) ==
    IF AnyKeyword(BatchKeywords, query_lower)
    THEN LET batch_chunks ==
                 SelectSeq(contexts, LAMBDA c : c.metadata.type = "batch")
             other_chunks ==
                 SelectSeq(contexts, LAMBDA c : c.metadata.type # "batch")
         IN  batch_chunks \o other_chunks
    ELSE contexts

\* mutant: payment chunks first, the batch chunks not moved behind them
payment_step_no_batch(contexts, query_lower) ==
    IF AnyKeyword(PaymentKeywords, query_lower)
    THEN SelectSeq(contexts, LAMBDA c : c.metadata.type = "payment")
            \o SelectSeq(contexts, LAMBDA c : c.metadata.type # "payment")
    ELSE contexts

\* mutant: other_chunks excludes only the payment chunks, so that the batch
\* chunks are listed twice
payment_step_twice(contexts, query_lower) ==
    IF AnyKeyword(PaymentKeywords, query_lower)
    THEN SelectSeq(contexts, LAMBDA c : c.metadata.type = "payment")
            \o SelectSeq(contexts, LAMBDA c : c.metadata.type = "batch")
            \o SelectSeq(contexts, LAMBDA c : c.metadata.type # "payment")
    ELSE contexts

\* "Prioritize payment chunks for EMI/payment queries"
payment_step(contexts, query_lower) ==
    IF AnyKeyword(PaymentKeywords, query_lower)
    THEN LET payment_chunks ==
                 SelectSeq(contexts, LAMBDA c : c.metadata.type = "payment")
             batch_chunks ==
                 SelectSeq(contexts, LAMBDA c : c.metadata.type = "batch")
             other_chunks ==
                 SelectSeq(contexts, LAMBDA c :
                     c.metadata.type \notin {"payment", "batch"})
         IN  payment_chunks \o batch_chunks \o other_chunks
    ELSE contexts

\* the intent-keyword reordering and "Return top n_results"
reorder_and_truncate(contexts, query, n_results) ==
    LET query_lower == lower(query)
    IN  Take(payment_step(batch_step(contexts, query_lower), query_lower),
             n_results)

\* retrieve_context, given what vector_db.search returned
retrieve_context(query, n_results, course_filter, search_results) ==
    reorder_and_truncate(
        course_filter_step(format_results(search_results), course_filter),
        query, n_results)

(***************************************************************************)
(* Answer composition: QueryHandler.format_answer and                      *)
(* GeminiLLMHandler.generate_answer.                                       *)
(***************************************************************************)
HasCost(ctx) == ctx.metadata.cost # ""

HasStartDate(ctx) ==
    ctx.metadata.batch_start_date # "" /\ ctx.metadata.batch_start_date # "null"

\* mutant: the loop has no break, and the last cost found is the one stated
PriceParts_last(query_lower, contexts) ==
    IF (In("price", query_lower) \/ In("cost", query_lower))
       /\ SelectSeq(contexts, HasCost) # <<>>
    THEN <<"The cost is ₹"
             \o SelectSeq(contexts, HasCost)[
                    Len(SelectSeq(contexts, HasCost))].metadata.cost>>
    ELSE <<>>

\* "Extract price": the loop over contexts stops at the first cost
PriceParts(query_lower, contexts) ==
    IF (In("price", query_lower) \/ In("cost", query_lower))
       /\ SelectSeq(contexts, HasCost) # <<>>
    THEN <<"The cost is ₹" \o SelectSeq(contexts, HasCost)[1].metadata.cost>>
    ELSE <<>>

\* QueryHandler._extract_answer_simple
extract_answer_simple(query, contexts, source_url) ==
    LET query_lower == lower(query)
        date_parts ==
            IF In("date", query_lower) \/ In("start", query_lower)
            THEN IF SelectSeq(contexts, HasStartDate) # <<>>
                 THEN <<"The batch starts on "
                          \o SelectSeq(contexts, HasStartDate)[1].metadata.batch_start_date>>
                 ELSE <<"The batch start date is not currently available">>
            ELSE <<>>
        found == PriceParts(query_lower, contexts) \o date_parts
        answer_parts == IF found = <<>> THEN <<contexts[1].content>> ELSE found
        answer == join(". ", answer_parts)
    IN  IF Truthy(source_url) THEN answer \o "\n\nSource: " \o source_url
        ELSE answer

\* the "- ..." lines of a payment chunk's content that name an amount
EmiLines(content) ==
    LET lines == split(content, "\n")
        kept  == SelectSeq(lines, LAMBDA line :
                     /\ startswith(strip(line), "-")
                     /\ (In("₹", line) \/ In("EMI", line)))
    IN  [i \in 1..Len(kept) |-> strip(kept[i])]

\* the comma-separated emi_options metadata as "- ..." lines
EmiList(emi_options) ==
    LET items == split(emi_options, ",")
        kept  == SelectSeq(items, LAMBDA e : strip(e) # "")
    IN  [i \in 1..Len(kept) |-> "- " \o strip(kept[i])]

\* what one payment context contributes to the EMI answer (<<>>: the loop
\* goes on to the next context)
EmiOf(ctx) ==
    IF ctx.metadata.type # "payment" THEN <<>>
    ELSE IF In("EMI Options", ctx.content)
    THEN IF EmiLines(ctx.content) # <<>>
         THEN <<"EMI Options available:">> \o EmiLines(ctx.content)
         ELSE <<>>
    ELSE IF ctx.metadata.emi_options # "" /\ EmiList(ctx.metadata.emi_options) # <<>>
    THEN <<"EMI Options available:">> \o EmiList(ctx.metadata.emi_options)
    ELSE <<>>

\* GeminiLLMHandler._extract_from_context
extract_from_context(query, contexts, source_url) ==
    LET query_lower == lower(query)
        emi_parts ==
            IF AnyKeyword({"emi", "installment", "payment"}, query_lower)
               /\ SelectSeq(contexts, LAMBDA c : EmiOf(c) # <<>>) # <<>>
            THEN EmiOf(SelectSeq(contexts, LAMBDA c : EmiOf(c) # <<>>)[1])
            ELSE <<>>
        before_date == emi_parts \o PriceParts(query_lower, contexts)
        date_parts ==
            IF In("date", query_lower) \/ In("start", query_lower)
            THEN LET found ==
                        IF SelectSeq(contexts, HasStartDate) # <<>>
                        THEN <<"The batch starts on "
                                 \o SelectSeq(contexts, HasStartDate)[1].metadata.batch_start_date>>
                        ELSE <<>>
                 IN  IF \E i \in 1..Len(before_date \o found) :
                            In("starts", (before_date \o found)[i])
                     THEN found
                     ELSE found \o <<"The batch start date is not currently available on the website">>
            ELSE <<>>
        found_parts == before_date \o date_parts
        answer_parts == IF found_parts = <<>>
                        THEN <<SubSeq(contexts[1].content, 1,
                                      Min(200, Len(contexts[1].content)))>>
                        ELSE found_parts
        answer == join(". ", answer_parts)
    IN  IF Truthy(source_url) THEN answer \o "\n\nSource: " \o source_url
        ELSE answer

\* what model.generate_content can do: answer with a text, or raise
LLMOutcomes ==
    {[kind |-> "text", text |-> " The fee is ₹32,999. \n"],
     [kind |-> "error", text |-> "429 Quota exceeded"],
     [kind |-> "error", text |-> "Daily QUOTA used up"],
     [kind |-> "error", text |-> "503 unavailable"]}

\* the external capabilities never consulted in a call
NoOutcome == [kind |-> "none", text |-> ""]

\* `if "quota" in error_msg.lower() or "429" in error_msg`
QuotaShaped(error_msg) == In("quota", lower(error_msg)) \/ In("429", error_msg)

\* mutant: the handler catches quota-shaped errors only
ExceptException_quota_only(llm) == llm.kind = "error" /\ QuotaShaped(llm.text)

\* `except Exception as e` around generate_content: what the clause catches
ExceptException(llm) == llm.kind = "error"

\* the error that leaves generate_answer uncaught (None: it returns)
generate_answer_raises(llm) ==
    IF llm.kind = "error" /\ ~ExceptException(llm) THEN llm.text ELSE None

\* mutant: a quota-shaped error is recognised by "429" only
generate_answer_429_only(query, contexts, source_url, conversation_history, llm) ==
    IF llm.kind = "text"
    THEN LET answer == strip(llm.text)
         IN  IF Truthy(source_url) /\ ~In(source_url, answer)
             THEN answer \o "\n\nSource: " \o source_url
             ELSE answer
    ELSE LET error_msg == llm.text
         IN  IF In("429", error_msg)
             THEN extract_from_context(query, contexts, source_url)
             ELSE "I encountered an error while generating the answer. Please try again. Error: "
                     \o error_msg

\* GeminiLLMHandler.generate_answer, given what generate_content did
generate_answer(query, contexts, source_url, conversation_history, llm) ==
    IF llm.kind = "text"
    THEN LET answer == strip(llm.text)
         IN  IF Truthy(source_url) /\ ~In(source_url, answer)
             THEN answer \o "\n\nSource: " \o source_url
             ELSE answer
    ELSE LET error_msg == llm.text
         IN  IF QuotaShaped(error_msg)
             THEN extract_from_context(query, contexts, source_url)
             ELSE "I encountered an error while generating the answer. Please try again. Error: "
                     \o error_msg

NoAnswer == "I couldn't find relevant information to answer your question."

\* mutant: the generation capability is consulted for an empty list too
Generates_always(contexts, has_llm) == has_llm

\* format_answer reaches `self.llm_handler.generate_answer(...)`
Generates(contexts, has_llm) == contexts # <<>> /\ has_llm

\* mutant: the source is taken from the last ranked chunk
format_answer_last_source(query, contexts, conversation_history, has_llm, llm) ==
    IF contexts = <<>>
    THEN [answer |-> NoAnswer, source_url |-> None, contexts_used |-> 0]
    ELSE LET source_url == contexts[Len(contexts)].metadata.source_url
             answer == IF has_llm
                       THEN generate_answer(query, contexts, source_url,
                                            conversation_history, llm)
                       ELSE extract_answer_simple(query, contexts, source_url)
         IN  [answer |-> answer, source_url |-> source_url,
              contexts_used |-> Len(contexts)]

\* QueryHandler.format_answer; has_llm is `self.llm_handler` being set
format_answer(query, contexts, conversation_history, has_llm, llm) ==
    IF contexts = <<>>
    THEN [answer |-> NoAnswer, source_url |-> None, contexts_used |-> 0]
    ELSE LET best_context == contexts[1]
             source_url == best_context.metadata.source_url
             answer == IF has_llm
                       THEN generate_answer(query, contexts, source_url,
                                            conversation_history, llm)
                       ELSE extract_answer_simple(query, contexts, source_url)
         IN  [answer |-> answer, source_url |-> source_url,
              contexts_used |-> Len(contexts)]

\* the error that leaves format_answer uncaught (None: it returns)
format_answer_raises(contexts, has_llm, llm) ==
    IF Generates(contexts, has_llm) THEN generate_answer_raises(llm) ELSE None

(***************************************************************************)
(* Direct calls on the shared ConversationMemory.                          *)
(***************************************************************************)
\* contents of the messages appended by direct add_message calls
Contents == {"hello"}

\* the sessions with an answer_query call in progress
InFlight == {s \in SessionIds : req[s].pc # "idle"}

\* The design assumes one request at a time per session: a direct call on a
\* session waits for that session's answer_query to return.  Every call in
\* progress still has one message to append before the clock stops.
AddMessage(session_id, role, content) ==
    /\ req[session_id].pc = "idle"
    /\ clock + 1 + Cardinality(InFlight) <= MaxClock
    /\ conversations' = add_message(conversations, max_messages, session_id,
                                    role, content, <<>>, clock)
    /\ clock' = clock + 1
    /\ appended' = [appended EXCEPT ![session_id] =
                        Append(@, Message(role, content, <<>>, clock))]
    /\ last' = [op |-> "add_message", sid |-> session_id]
    /\ out' = None
    /\ UNCHANGED <<max_messages, collection, llm_handler, call, req,
                   compose, server, chunker, vector_db, threads>>

GetHistory(session_id, last_n) ==
    /\ req[session_id].pc = "idle"
    /\ out' = get_history(conversations, session_id, last_n)
    /\ last' = [op |-> "get_history", sid |-> session_id, last_n |-> last_n]
    /\ UNCHANGED <<max_messages, conversations, clock, appended,
                   collection, llm_handler, call, req,
                   compose, server, chunker, vector_db, threads>>

GetConversationContext(session_id) ==
    /\ req[session_id].pc = "idle"
    /\ out' = get_conversation_context(conversations, session_id)
    /\ last' = [op |-> "get_conversation_context", sid |-> session_id]
    /\ UNCHANGED <<max_messages, conversations, clock, appended,
                   collection, llm_handler, call, req,
                   compose, server, chunker, vector_db, threads>>

ClearSession(session_id) ==
    /\ req[session_id].pc = "idle"
    /\ conversations' = clear_session(conversations, session_id)
    /\ appended' = [appended EXCEPT ![session_id] = <<>>]
    /\ req' = [req EXCEPT ![session_id].previous = "none"]
    /\ last' = [op |-> "clear_session", sid |-> session_id]
    /\ out' = None
    /\ UNCHANGED <<max_messages, clock, collection, llm_handler, call,
                   compose, server, chunker, vector_db, threads>>

(***************************************************************************)
(* Direct calls of QueryHandler.retrieve_context.                          *)
(***************************************************************************)
IdleCall ==
    [pc |-> "idle", query |-> "", n_results |-> 0, course_filter |-> None,
     search_n |-> 0, candidates |-> <<>>, filtered |-> <<>>, result |-> <<>>,
     error |-> None, calls |-> <<>>]

\* one call: embed the query, search the index, reorder, truncate; the
\* frame keeps the contexts list as it is after each stage, or the error
\* of the collaborator that failed
RetrieveContext(query, n_results, course_filter) ==
    /\ call.pc = "idle"
    /\ \E ranking \in Orderings(collection),
          embedded \in EmbedOutcomes, searched \in SearchOutcomes :
          LET io == retrieve_context_io(embedded, searched)
              search_results == search(ranking, OverFetch(n_results))
              contexts == format_results(search_results)
              filtered == course_filter_step(contexts, course_filter)
              calls == retrieve_context_calls(query, n_results, course_filter,
                                              embedded)
          IN  call' = IF io.raised # None
                      THEN [IdleCall EXCEPT !.pc = "raised", !.query = query,
                                            !.n_results = n_results,
                                            !.course_filter = course_filter,
                                            !.error = io.raised,
                                            !.calls = calls]
                      ELSE [pc |-> "returned", query |-> query,
                            n_results |-> n_results,
                            course_filter |-> course_filter,
                            search_n |-> OverFetch(n_results),
                            candidates |-> contexts,
                            filtered |-> filtered,
                            result |-> reorder_and_truncate(filtered, query,
                                                            n_results),
                            error |-> None, calls |-> calls]
    /\ last' = [op |-> "retrieve_context", sid |-> None]
    /\ UNCHANGED <<max_messages, conversations, clock, appended, out,
                   collection, llm_handler, req,
                   compose, server, chunker, vector_db, threads>>

\* the caller takes the result, or the error
RetrieveReturn ==
    /\ call.pc \in {"returned", "raised"}
    /\ call' = IdleCall
    /\ last' = [op |-> "return", sid |-> None]
    /\ UNCHANGED <<max_messages, conversations, clock, appended, out,
                   collection, llm_handler, req,
                   compose, server, chunker, vector_db, threads>>

(***************************************************************************)
(* Direct calls of QueryHandler.format_answer.                             *)
(***************************************************************************)
IdleCompose ==
    [pc |-> "idle", query |-> "", contexts |-> <<>>, llm |-> NoOutcome,
     raised |-> None,
     result |-> [answer |-> "", source_url |-> None, contexts_used |-> 0]]

\* one call: compose the answer from a ranked list; the frame keeps what
\* generate_content did (NoOutcome: it was not invoked)
FormatAnswer(query, contexts, conversation_history) ==
    /\ compose.pc = "idle"
    /\ \E llm \in IF Generates(contexts, llm_handler) THEN LLMOutcomes
                   ELSE {NoOutcome} :
          LET raised == format_answer_raises(contexts, llm_handler, llm)
          IN  compose' =
                [pc |-> "returned", query |-> query, contexts |-> contexts,
                 llm |-> llm, raised |-> raised,
                 result |-> IF raised # None THEN IdleCompose.result
                            ELSE format_answer(query, contexts,
                                     conversation_history, llm_handler, llm)]
    /\ last' = [op |-> "format_answer", sid |-> None]
    /\ UNCHANGED <<max_messages, conversations, clock, appended, out,
                   collection, llm_handler, call, req, server, chunker, vector_db, threads>>

\* the caller takes the result
ComposeReturn ==
    /\ compose.pc = "returned"
    /\ compose' = IdleCompose
    /\ last' = [op |-> "return", sid |-> None]
    /\ UNCHANGED <<max_messages, conversations, clock, appended, out,
                   collection, llm_handler, call, req, server, chunker, vector_db, threads>>

(***************************************************************************)
(* QueryHandler.answer_query, one step per call it makes.                  *)
(***************************************************************************)
\* previous is a history field: how the session's previous request ended
\* ("none": it is the first since the session was created or last cleared)
IdleFrame ==
    [pc |-> "idle", query |-> "", base |-> 0, conversation_history |-> "",
     course_filter |-> None, contexts |-> <<>>,
     result |-> [answer |-> "", source_url |-> None, contexts_used |-> 0],
     embed_calls |-> 0, search_calls |-> 0, generate_calls |-> 0,
     error |-> None, previous |-> "none"]

\* the course_keywords dictionary, in its insertion order
course_keywords ==
    <<[keyword |-> "product management", course_name |-> "Product Management"],
      [keyword |-> "data analyst", course_name |-> "Data Analyst"],
      [keyword |-> "business analyst", course_name |-> "Business Analyst"],
      [keyword |-> "ui ux", course_name |-> "UI UX Design"],
      [keyword |-> "ui/ux", course_name |-> "UI UX Design"]>>

RECURSIVE LastCourse(_, _)
\* mutant: the loop without its break, so the last matching entry wins
LastCourse(table, history_lower) ==
    IF table = <<>> THEN None
    ELSE IF LastCourse(Tail(table), history_lower) # None
    THEN LastCourse(Tail(table), history_lower)
    ELSE IF In(Head(table).keyword, history_lower) THEN Head(table).course_name
    ELSE None

RECURSIVE FirstCourse(_, _)
\* the loop over course_keywords.items(), with its break
FirstCourse(table, history_lower) ==
    IF table = <<>> THEN None
    ELSE IF In(Head(table).keyword, history_lower) THEN Head(table).course_name
    ELSE FirstCourse(Tail(table), history_lower)

\* mutant: only the newest line of the history, the current question, is
\* searched for a course name
resolve_course_filter_newest(conversation_history) ==
    IF conversation_history # ""
    THEN LET lines == split(conversation_history, "\n")
         IN  FirstCourse(course_keywords, lower(lines[Len(lines)]))
    ELSE None

\* "Extract course name from conversation history"
resolve_course_filter(conversation_history) ==
    IF conversation_history # ""
    THEN FirstCourse(course_keywords, lower(conversation_history))
    ELSE None

\* n_results answer_query passes to retrieve_context
AnswerResults == 15

\* "Add user message to memory"
AQ_AddUser(session_id, query) ==
    /\ req[session_id].pc = "idle"
    /\ clock + 2 + Cardinality(InFlight) <= MaxClock
    /\ conversations' = add_message(conversations, max_messages, session_id,
                                    "user", query, <<>>, clock)
    /\ clock' = clock + 1
    /\ appended' = [appended EXCEPT ![session_id] =
                        Append(@, Message("user", query, <<>>, clock))]
    /\ req' = [req EXCEPT ![session_id] =
                  [IdleFrame EXCEPT !.pc = "resolve", !.query = query,
                                    !.base = Len(appended[session_id]),
                                    !.previous = req[session_id].previous]]
    /\ last' = [op |-> "answer_query", sid |-> session_id]
    /\ UNCHANGED <<max_messages, out, collection, llm_handler, call,
                   compose, server, chunker, vector_db, threads>>

\* "Get conversation history" and resolve the course filter from it
AQ_Resolve(session_id) ==
    /\ req[session_id].pc = "resolve"
    /\ LET conversation_history ==
               get_conversation_context(conversations, session_id)
       IN  req' = [req EXCEPT ![session_id] =
                      [req[session_id] EXCEPT
                          !.pc = "retrieve",
                          !.conversation_history = conversation_history,
                          !.course_filter =
                              resolve_course_filter(conversation_history)]]
    /\ last' = [op |-> "answer_query", sid |-> session_id]
    /\ UNCHANGED <<max_messages, conversations, clock, appended, out,
                   collection, llm_handler, call,
                   compose, server, chunker, vector_db, threads>>

\* "Retrieve relevant context", the embedder and the index answering
AQ_Retrieve(session_id) ==
    /\ req[session_id].pc = "retrieve"
    /\ \E ranking \in Orderings(collection) :
          LET frame == req[session_id]
              io == retrieve_context_io("ok", "ok")
              contexts == retrieve_context(
                              frame.query, AnswerResults, frame.course_filter,
                              search(ranking, OverFetch(AnswerResults)))
          IN  req' = [req EXCEPT ![session_id] =
                         [frame EXCEPT !.pc = "format",
                                       !.embed_calls = io.embed_calls,
                                       !.search_calls = io.search_calls,
                                       !.contexts = contexts]]
    /\ last' = [op |-> "answer_query", sid |-> session_id]
    /\ UNCHANGED <<max_messages, conversations, clock, appended, out,
                   collection, llm_handler, call,
                   compose, server, chunker, vector_db, threads>>

\* "Retrieve relevant context", the embedder or the index raising: the
\* error is not caught in retrieve_context nor in answer_query
AQ_RetrieveRaises(session_id) ==
    /\ req[session_id].pc = "retrieve"
    /\ \E embedded \in EmbedOutcomes, searched \in SearchOutcomes :
          LET frame == req[session_id]
              io == retrieve_context_io(embedded, searched)
          IN  /\ io.raised # None
              /\ req' = [req EXCEPT ![session_id] =
                            [frame EXCEPT !.pc = "raised",
                                          !.embed_calls = io.embed_calls,
                                          !.search_calls = io.search_calls,
                                          !.error = io.raised]]
    /\ last' = [op |-> "answer_query", sid |-> session_id]
    /\ UNCHANGED <<max_messages, conversations, clock, appended, out,
                   collection, llm_handler, call,
                   compose, server, chunker, vector_db, threads>>

\* mutant: the question is taken out of the memory again before the error
\* leaves
AQ_Raise_rollback(session_id) ==
    /\ req[session_id].pc = "raised"
    /\ out' = [error |-> req[session_id].error]
    /\ req' = [req EXCEPT ![session_id] =
                  [IdleFrame EXCEPT !.previous = "raised"]]
    /\ conversations' =
          [conversations EXCEPT ![session_id] =
              SubSeq(@, 1, Len(@) - 1)]
    /\ appended' = [appended EXCEPT ![session_id] = SubSeq(@, 1, Len(@) - 1)]
    /\ last' = [op |-> "answer_query", sid |-> session_id]
    /\ UNCHANGED <<max_messages, clock,
                   collection, llm_handler, call,
                   compose, server, chunker, vector_db, threads>>

\* the error leaves answer_query: nothing after the failed call runs
AQ_Raise(session_id) ==
    /\ req[session_id].pc = "raised"
    /\ out' = [error |-> req[session_id].error]
    /\ req' = [req EXCEPT ![session_id] =
                  [IdleFrame EXCEPT !.previous = "raised"]]
    /\ last' = [op |-> "answer_query", sid |-> session_id]
    /\ UNCHANGED <<max_messages, conversations, clock, appended,
                   collection, llm_handler, call,
                   compose, server, chunker, vector_db, threads>>

\* "Format answer with conversation context"; the contexts are not read
\* again after this call, and the frame drops them
AQ_Format(session_id) ==
    /\ req[session_id].pc = "format"
    /\ \E llm \in IF Generates(req[session_id].contexts, llm_handler)
                   THEN LLMOutcomes ELSE {NoOutcome} :
          LET frame == req[session_id]
              result == format_answer(frame.query, frame.contexts,
                                      frame.conversation_history,
                                      llm_handler, llm)
          IN  req' = [req EXCEPT ![session_id] =
                         [frame EXCEPT
                             !.pc = "respond", !.result = result,
                             !.generate_calls =
                                 IF llm = NoOutcome THEN 0 ELSE 1,
                             !.contexts = <<>>]]
    /\ last' = [op |-> "answer_query", sid |-> session_id]
    /\ UNCHANGED <<max_messages, conversations, clock, appended, out,
                   collection, llm_handler, call,
                   compose, server, chunker, vector_db, threads>>

\* "Add assistant response to memory" and return the result
AQ_Respond(session_id) ==
    /\ req[session_id].pc = "respond"
    /\ LET result == req[session_id].result
           metadata == [source_url |-> result.source_url]
       IN  /\ conversations' = add_message(conversations, max_messages,
                                   session_id, "assistant", result.answer,
                                   metadata, clock)
           /\ appended' = [appended EXCEPT ![session_id] =
                              Append(@, Message("assistant", result.answer,
                                                metadata, clock))]
           /\ out' = result
    /\ clock' = clock + 1
    /\ req' = [req EXCEPT ![session_id] =
                  [IdleFrame EXCEPT !.previous = "answered"]]
    /\ last' = [op |-> "answer_query", sid |-> session_id]
    /\ UNCHANGED <<max_messages, collection, llm_handler, call,
                   compose, server, chunker, vector_db, threads>>

(***************************************************************************)
(* api/server.py: the lazily initialised singleton behind the /query       *)
(* endpoints, and GeminiLLMHandler.__init__.                               *)
(***************************************************************************)
\* values of the GEMINI_API_KEY environment variable (None: not set)
ApiKeys == {None, "", "AIza-key"}

\* the module globals before the first request; attempts counts the runs
\* of the initialisation block
ServerStart ==
    [_vector_db |-> FALSE, _embedder |-> FALSE, _llm_handler |-> FALSE,
     _conversation_memory |-> FALSE, _query_handler |-> FALSE,
     api_key |-> None, attempts |-> 0]

\* GeminiLLMHandler.__init__: the error it raises (None: the handler is built)
GeminiLLMHandler_init(api_key, env) ==
    LET self_api_key == IF Truthy(api_key) THEN api_key ELSE env
    IN  IF ~Truthy(self_api_key)
        THEN "Gemini API key is required. Set GEMINI_API_KEY environment variable or pass api_key parameter."
        ELSE None

\* mutant: without a key the handler is installed with no generation
\* capability and returned
get_query_handler_degraded(sv) ==
    IF sv._query_handler THEN [globals |-> sv, raised |-> None]
    ELSE [globals |-> [sv EXCEPT !._vector_db = TRUE, !._embedder = TRUE,
                                 !._llm_handler = Truthy(sv.api_key),
                                 !._conversation_memory = TRUE,
                                 !._query_handler = TRUE,
                                 !.attempts = @ + 1],
          raised |-> None]

\* get_query_handler: the globals afterwards, and the error it raises
\* (None: it returns _query_handler)
get_query_handler(sv) ==
    IF sv._query_handler THEN [globals |-> sv, raised |-> None]
    ELSE LET started == [sv EXCEPT !._vector_db = TRUE, !._embedder = TRUE,
                                   !.attempts = @ + 1]
         IN  IF ~Truthy(sv.api_key)
             THEN [globals |-> started,
                   raised |-> "GEMINI_API_KEY environment variable is required"]
             ELSE IF GeminiLLMHandler_init(sv.api_key, sv.api_key) # None
             THEN [globals |-> started,
                   raised |-> GeminiLLMHandler_init(sv.api_key, sv.api_key)]
             ELSE [globals |-> [started EXCEPT !._llm_handler = TRUE,
                                               !._conversation_memory = TRUE,
                                               !._query_handler = TRUE],
                   raised |-> None]

\* GeminiLLMHandler(api_key=api_key) constructed directly, as the start-up
\* scripts do before the first request is served
ConstructLLMHandler(api_key) ==
    /\ server.attempts = 0
    /\ out' = [error |-> GeminiLLMHandler_init(api_key, server.api_key)]
    /\ last' = [op |-> "GeminiLLMHandler", sid |-> api_key]
    /\ UNCHANGED <<max_messages, conversations, clock, appended,
                   collection, llm_handler, call, req,
                   compose, server, chunker, vector_db, threads>>

\* POST /query: get_query_handler, then the first statement of
\* answer_query on the handler it returned; an error of get_query_handler
\* ends the request, and the endpoint reports it
Query(session_id, question) ==
    /\ req[session_id].pc = "idle"
    /\ clock + 2 + Cardinality(InFlight) <= MaxClock
    /\ server._query_handler \/ server.attempts < MaxAttempts
    /\ LET handler == get_query_handler(server)
       IN  /\ server' = handler.globals
           /\ llm_handler' = handler.globals._llm_handler
           /\ IF handler.raised # None
              THEN /\ out' = [error |-> handler.raised]
                   /\ UNCHANGED <<conversations, clock, appended, req>>
              ELSE /\ conversations' = add_message(conversations, max_messages,
                                           session_id, "user", question, <<>>,
                                           clock)
                   /\ clock' = clock + 1
                   /\ appended' = [appended EXCEPT ![session_id] =
                                      Append(@, Message("user", question, <<>>,
                                                        clock))]
                   /\ req' = [req EXCEPT ![session_id] =
                                 [IdleFrame EXCEPT
                                     !.pc = "resolve", !.query = question,
                                     !.base = Len(appended[session_id]),
                                     !.previous = req[session_id].previous]]
                   /\ UNCHANGED out
    /\ last' = [op |-> "query", sid |-> session_id]
    /\ UNCHANGED <<max_messages, collection, call, compose, chunker,
                   vector_db, threads>>

(***************************************************************************)
(* CourseChunker.  A course record is a dictionary of groups; a key that   *)
(* is missing is Absent, a key the scraper left unset is None.             *)
(***************************************************************************)
Absent == "<absent>"

\* dict.get(key, default)
Get(value, default) == IF value = Absent THEN default ELSE value

\* an f-string field: None is rendered as the text "None"
Str(value) == IF value = None THEN "None" ELSE value

\* the truth value of an optional string
Present(value) == value \notin {Absent, None, ""}

CourseRecord(source_url, cohort, batch, emi_options, curriculum, rest) ==
    [source_url |-> source_url,
     cohort |-> cohort,
     batch |-> batch,
     payment_options |-> [emi_options |-> emi_options],
     curriculum |-> [curriculum |-> curriculum],
     mentors_instructors |-> [instructors |-> rest.instructors,
                              mentors |-> rest.mentors],
     placements |-> [placement_text |-> rest.placement_text],
     reviews |-> [reviews |-> rest.reviews]]

\* the metadata every chunk carries
BaseMetadata(type, cohort_name, source_url, field) ==
    [type |-> type, cohort_name |-> cohort_name, source_url |-> source_url,
     field |-> field]

\* "Chunk 1: Cohort Information"
cohort_chunks(course_data, cohort_name, source_url) ==
    LET cohort == course_data.cohort
        cohort_text ==
            "Cohort: " \o Str(Get(cohort.cohort_name, "")) \o "\n"
              \o "Description: " \o Str(Get(cohort.cohort_description, ""))
    IN  IF strip(cohort_text) # ""
        THEN <<[content |-> strip(cohort_text),
                metadata |-> BaseMetadata("cohort", cohort_name, source_url,
                                          "cohort_info")]>>
        ELSE <<>>

\* mutant: the chunk is emitted whenever the text is non-empty, label included
batch_chunks_label_only(course_data, cohort_name, source_url) ==
    LET batch == course_data.batch
        label == "Batch Information for " \o Str(cohort_name) \o ":\n"
        batch_text ==
            label
              \o (IF Present(batch.batch_start_date)
                  THEN "Start Date: " \o batch.batch_start_date \o "\n" ELSE "")
              \o (IF Present(batch.cost)
                  THEN "Cost: " \o batch.cost \o "\n" ELSE "")
              \o (IF Present(batch.course_type)
                  THEN "Course Type: " \o batch.course_type ELSE "")
    IN  IF strip(batch_text) # ""
        THEN <<[content |-> strip(batch_text),
                metadata |-> [type |-> "batch", cohort_name |-> cohort_name,
                              source_url |-> source_url,
                              field |-> "batch_info",
                              cost |-> Get(batch.cost, None),
                              batch_start_date |->
                                  Get(batch.batch_start_date, None),
                              course_type |-> Get(batch.course_type, None)]]>>
        ELSE <<>>

\* "Chunk 2: Batch Information"
batch_chunks(course_data, cohort_name, source_url) ==
    LET batch == course_data.batch
        label == "Batch Information for " \o Str(cohort_name) \o ":\n"
        batch_text ==
            label
              \o (IF Present(batch.batch_start_date)
                  THEN "Start Date: " \o batch.batch_start_date \o "\n" ELSE "")
              \o (IF Present(batch.cost)
                  THEN "Cost: " \o batch.cost \o "\n" ELSE "")
              \o (IF Present(batch.course_type)
                  THEN "Course Type: " \o batch.course_type ELSE "")
    IN  IF strip(batch_text) # "" /\ Len(strip(batch_text)) > Len(label)
        THEN <<[content |-> strip(batch_text),
                metadata |-> [type |-> "batch", cohort_name |-> cohort_name,
                              source_url |-> source_url,
                              field |-> "batch_info",
                              cost |-> Get(batch.cost, None),
                              batch_start_date |->
                                  Get(batch.batch_start_date, None),
                              course_type |-> Get(batch.course_type, None)]]>>
        ELSE <<>>

\* "Chunk for Payment Options"
payment_chunks(course_data, cohort_name, source_url) ==
    LET emi_options == course_data.payment_options.emi_options
        payment_text ==
            "Payment Options for " \o Str(cohort_name) \o ":\n"
              \o "EMI Options:\n"
              \o join("", [i \in 1..Len(emi_options) |->
                               "- " \o emi_options[i] \o "\n"])
    IN  IF emi_options # <<>> /\ strip(payment_text) # ""
        THEN <<[content |-> strip(payment_text),
                metadata |-> [type |-> "payment", cohort_name |-> cohort_name,
                              source_url |-> source_url,
                              field |-> "payment_options",
                              emi_options |-> emi_options]]>>
        ELSE <<>>

\* mutant: the whole curriculum in one chunk
curriculum_chunks_joined(course_data, cohort_name, source_url) ==
    LET curriculum_items == course_data.curriculum.curriculum
    IN  IF curriculum_items = <<>> THEN <<>>
        ELSE <<[content |-> "Curriculum for " \o Str(cohort_name) \o ": "
                              \o join("\n", curriculum_items),
                metadata |-> [type |-> "curriculum",
                              cohort_name |-> cohort_name,
                              source_url |-> source_url,
                              field |-> "curriculum", item_index |-> 0]]>>

\* "Chunk 3: Curriculum": one chunk per item, enumerate() counting from 0
curriculum_chunks(course_data, cohort_name, source_url) ==
    LET curriculum_items == course_data.curriculum.curriculum
    IN  [i \in 1..Len(curriculum_items) |->
            [content |-> "Curriculum for " \o Str(cohort_name) \o ": "
                           \o curriculum_items[i],
             metadata |-> [type |-> "curriculum", cohort_name |-> cohort_name,
                           source_url |-> source_url, field |-> "curriculum",
                           item_index |-> i - 1]]]

\* "Chunk 4: Mentors/Instructors"
mentors_chunks(course_data, cohort_name, source_url) ==
    LET instructors_list == course_data.mentors_instructors.instructors
        mentors_list == course_data.mentors_instructors.mentors
        mentors_text ==
            "Instructors and Mentors for " \o Str(cohort_name) \o ":\n"
              \o (IF instructors_list # <<>>
                  THEN "Instructors: " \o join(", ", instructors_list) \o "\n"
                  ELSE "")
              \o (IF mentors_list # <<>>
                  THEN "Mentors: " \o join(", ", mentors_list) ELSE "")
    IN  IF instructors_list # <<>> \/ mentors_list # <<>>
        THEN <<[content |-> strip(mentors_text),
                metadata |-> [type |-> "mentors_instructors",
                              cohort_name |-> cohort_name,
                              source_url |-> source_url,
                              field |-> "mentors_instructors",
                              instructors |-> instructors_list,
                              mentors |-> mentors_list]]>>
        ELSE <<>>

\* "Chunk 5: Placements"
placements_chunks(course_data, cohort_name, source_url) ==
    LET placement_text == course_data.placements.placement_text
    IN  IF Present(placement_text)
        THEN <<[content |-> "Placement Information for " \o Str(cohort_name)
                              \o ": " \o placement_text,
                metadata |-> BaseMetadata("placements", cohort_name,
                                          source_url, "placements")]>>
        ELSE <<>>

\* "Chunk 6: Reviews", limited to the first 3
reviews_chunks(course_data, cohort_name, source_url) ==
    LET reviews_list == course_data.reviews.reviews
        reviews_text == join("\n", Take(reviews_list, 3))
    IN  IF reviews_list # <<>>
        THEN <<[content |-> "Reviews for " \o Str(cohort_name) \o ": "
                              \o reviews_text,
                metadata |-> BaseMetadata("reviews", cohort_name, source_url,
                                          "reviews")]>>
        ELSE <<>>

\* CourseChunker.chunk_course_data
chunk_course_data(course_data) ==
    LET source_url == Get(course_data.source_url, "")
        cohort_name == Get(course_data.cohort.cohort_name, "Unknown")
    IN  cohort_chunks(course_data, cohort_name, source_url)
          \o batch_chunks(course_data, cohort_name, source_url)
          \o payment_chunks(course_data, cohort_name, source_url)
          \o curriculum_chunks(course_data, cohort_name, source_url)
          \o mentors_chunks(course_data, cohort_name, source_url)
          \o placements_chunks(course_data, cohort_name, source_url)
          \o reviews_chunks(course_data, cohort_name, source_url)

\* mutant: source_url is read once, from the first record, for all records
chunk_all_courses_first_url(courses_data) ==
    LET all_chunks ==
            IF courses_data = <<>> THEN <<>>
            ELSE chunk_course_data(Head(courses_data))
                   \o (IF Tail(courses_data) = <<>> THEN <<>>
                       ELSE chunk_course_data(Head(Tail(courses_data))))
    IN  [i \in 1..Len(all_chunks) |->
            [all_chunks[i] EXCEPT
                !.metadata.source_url = Head(courses_data).source_url]]

RECURSIVE chunk_all_courses(_)
\* CourseChunker.chunk_all_courses
chunk_all_courses(courses_data) ==
    IF courses_data = <<>> THEN <<>>
    ELSE chunk_course_data(Head(courses_data))
           \o chunk_all_courses(Tail(courses_data))

IdleChunker == [pc |-> "idle", courses_data |-> <<>>, chunks |-> <<>>]

\* chunk_course_data called on one record
ChunkCourseData(course_data) ==
    /\ chunker.pc = "idle"
    /\ chunker' = [pc |-> "chunk_course_data", courses_data |-> <<course_data>>,
                   chunks |-> chunk_course_data(course_data)]
    /\ last' = [op |-> "chunk_course_data", sid |-> None]
    /\ UNCHANGED <<max_messages, conversations, clock, appended, out,
                   collection, llm_handler, call, req, compose, server, vector_db, threads>>

\* chunk_all_courses called on a list of records
ChunkAllCourses(courses_data) ==
    /\ chunker.pc = "idle"
    /\ chunker' = [pc |-> "chunk_all_courses", courses_data |-> courses_data,
                   chunks |-> chunk_all_courses(courses_data)]
    /\ last' = [op |-> "chunk_all_courses", sid |-> None]
    /\ UNCHANGED <<max_messages, conversations, clock, appended, out,
                   collection, llm_handler, call, req, compose, server, vector_db, threads>>

\* the caller takes the chunks
ChunkerReturn ==
    /\ chunker.pc # "idle"
    /\ chunker' = IdleChunker
    /\ last' = [op |-> "return", sid |-> None]
    /\ UNCHANGED <<max_messages, conversations, clock, appended, out,
                   collection, llm_handler, call, req, compose, server, vector_db, threads>>

(***************************************************************************)
(* VectorDB (src/src/embeddings/vector_db.py).  A metadata value is a      *)
(* Python object of any type; the model tags it with its type, so that     *)
(* isinstance and `is None` are tests on the tag.                          *)
(***************************************************************************)
\* a str value
S(text) == [str |-> text]

\* an int value
I(number) == [int |-> number]

\* a list value
L(items) == [list |-> items]

\* a dict value, as a nested metadata dictionary would be
D(entries) == [dict |-> entries]

\* the value None
NoneValue == [none |-> TRUE]

\* isinstance(value, list)
IsList(value) == "list" \in DOMAIN value

\* value is None
IsNone(value) == "none" \in DOMAIN value

\* "ChromaDB requires metadata values to be strings, numbers, or bools"
IsScalar(value) == DOMAIN value \subseteq {"str", "int", "bool"}

\* str(v) of a list element
str(v) ==
    IF "str" \in DOMAIN v THEN v.str
    ELSE IF "int" \in DOMAIN v THEN ToString(v.int)
    ELSE IF "bool" \in DOMAIN v THEN (IF v.bool THEN "True" ELSE "False")
    ELSE "None"

\* mutant: a None value is rendered with str() instead of being emptied
normalize_metadata_str_none(metadata) ==
    [key \in DOMAIN metadata |->
        IF IsList(metadata[key])
        THEN S(join(", ", [i \in 1..Len(metadata[key].list) |->
                               str(metadata[key].list[i])]))
        ELSE IF IsNone(metadata[key]) THEN S(str(metadata[key]))
        ELSE metadata[key]]

\* "Convert lists to strings": the copy of one chunk's metadata that
\* add_chunks hands to the collection
normalize_metadata(metadata) ==
    [key \in DOMAIN metadata |->
        IF IsList(metadata[key])
        THEN S(join(", ", [i \in 1..Len(metadata[key].list) |->
                               str(metadata[key].list[i])]))
        ELSE IF IsNone(metadata[key]) THEN S("")
        ELSE metadata[key]]

\* what collection.add can do with a request it accepts: write it, or raise
\* (an id that exists already, the disk)
AddOutcomes == {"ok", "error"}

\* the outcome when collection.add is not reached
NotAdded == "none"

\* chromadb's Collection.add: a request with a metadata value that is not
\* a scalar is refused; an accepted one writes the records whose id is new
\* and leaves a record that exists as it is
collection_add(records, ids, embeddings, documents, metadatas, added) ==
    IF \E i \in 1..Len(metadatas) : \E key \in DOMAIN metadatas[i] :
           ~IsScalar(metadatas[i][key])
    THEN [records |-> records, raised |-> "ValueError: Expected metadata value to be a str, int, float or bool"]
    ELSE IF added # "ok"
    THEN [records |-> records, raised |-> "chromadb error"]
    ELSE [records |->
             [id \in DOMAIN records \cup {ids[i] : i \in 1..Len(ids)} |->
                 IF id \in DOMAIN records THEN records[id]
                 ELSE LET i == CHOOSE j \in 1..Len(ids) : ids[j] = id
                      IN  [document |-> documents[i],
                           metadata |-> metadatas[i],
                           embedding |-> embeddings[i]]],
          raised |-> None]

\* mutant: the two lists are zipped, the longer one cut to the shorter
add_chunks_zip(records, chunks, embeddings, added) ==
    LET n == Min(Len(chunks), Len(embeddings))
        ids == [i \in 1..n |-> "chunk_" \o ToString(i - 1)]
        documents == [i \in 1..n |-> chunks[i].content]
        metadatas == [i \in 1..n |-> normalize_metadata(chunks[i].metadata)]
        written == collection_add(records, ids, SubSeq(embeddings, 1, n),
                                  documents, metadatas, added)
    IN  [records |-> written.records, raised |-> written.raised,
         handed |-> TRUE, metadatas |-> metadatas]

\* VectorDB.add_chunks: the records of the collection afterwards, the error
\* raised (None: it returns), whether collection.add was called and the
\* metadatas it was handed
add_chunks(records, chunks, embeddings, added) ==
    IF Len(chunks) # Len(embeddings)
    THEN [records |-> records,
          raised |-> "ValueError: Number of chunks must match number of embeddings",
          handed |-> FALSE, metadatas |-> <<>>]
    ELSE LET ids == [i \in 1..Len(chunks) |-> "chunk_" \o ToString(i - 1)]
             documents == [i \in 1..Len(chunks) |-> chunks[i].content]
             metadatas == [i \in 1..Len(chunks) |->
                              normalize_metadata(chunks[i].metadata)]
             written == collection_add(records, ids, embeddings, documents,
                                       metadatas, added)
         IN  [records |-> written.records, raised |-> written.raised,
              handed |-> TRUE, metadatas |-> metadatas]

\* VectorDB.get_collection_info
get_collection_info(ids) ==
    [collection_name |-> "nextleap_courses", chunk_count |-> Cardinality(ids)]

\* no call in progress on a collection holding the given records
IndexFrame(records) ==
    [pc |-> "idle", records |-> records, chunks |-> <<>>, embeddings |-> <<>>,
     added |-> NotAdded, raised |-> None, handed |-> FALSE,
     metadatas |-> <<>>]

\* a VectorDB over a new collection
IdleIndex == IndexFrame(<<>>)

\* add_chunks called directly; the frame keeps the arguments, and what was
\* handed to collection.add
AddChunks(chunks, embeddings) ==
    /\ vector_db.pc = "idle"
    /\ \E added \in AddOutcomes :
          LET result == add_chunks(vector_db.records, chunks, embeddings, added)
          IN  /\ vector_db' = [pc |-> "add_chunks",
                               records |-> result.records,
                               chunks |-> chunks, embeddings |-> embeddings,
                               added |-> IF result.handed THEN added
                                         ELSE NotAdded,
                               raised |-> result.raised,
                               handed |-> result.handed,
                               metadatas |-> result.metadatas]
              /\ collection' = DOMAIN result.records
    /\ last' = [op |-> "add_chunks", sid |-> None]
    /\ UNCHANGED <<max_messages, conversations, clock, appended, out,
                   llm_handler, call, req, compose, server, chunker,
                   threads>>

\* get_collection_info called directly
GetCollectionInfo ==
    /\ vector_db.pc = "idle"
    /\ out' = get_collection_info(collection)
    /\ last' = [op |-> "get_collection_info", sid |-> None]
    /\ UNCHANGED <<max_messages, conversations, clock, appended,
                   collection, llm_handler, call, req, compose, server,
                   chunker, vector_db, threads>>

\* the caller of add_chunks takes over again
IndexReturn ==
    /\ vector_db.pc = "add_chunks"
    /\ vector_db' = IndexFrame(vector_db.records)
    /\ last' = [op |-> "return", sid |-> None]
    /\ UNCHANGED <<max_messages, conversations, clock, appended, out,
                   collection, llm_handler, call, req, compose, server,
                   chunker, threads>>

(***************************************************************************)
(* ConversationMemory.add_message called from several threads.  The class  *)
(* takes no lock: a thread can be preempted between any two statements,    *)
(* and each statement (a dictionary test, a dictionary store, a deque      *)
(* append) is atomic under the interpreter lock.                           *)
(***************************************************************************)
Threads == {"t1", "t2"}

IdleThread ==
    [pc |-> "idle", session_id |-> None, role |-> "", content |-> "",
     message |-> <<>>]

\* the calls that have not stamped their message yet
Unstamped == {t \in Threads : threads[t].pc \in {"create", "message"}}

\* `if session_id not in self.conversations:`
T_Test(t, session_id, role, content) ==
    /\ threads[t].pc = "idle"
    /\ clock + Cardinality(Unstamped) + 1 <= MaxClock
    /\ threads' = [threads EXCEPT ![t] =
                      [pc |-> IF session_id \notin DOMAIN conversations
                              THEN "create" ELSE "message",
                       session_id |-> session_id, role |-> role,
                       content |-> content, message |-> <<>>]]
    /\ last' = [op |-> "add_message", sid |-> session_id]
    /\ UNCHANGED <<max_messages, conversations, clock, appended, out,
                   collection, llm_handler, call, req, compose, server,
                   chunker, vector_db>>

\* `self.conversations[session_id] = deque(maxlen=self.max_messages)`: the
\* store replaces whatever the key holds by then
T_Create(t) ==
    /\ threads[t].pc = "create"
    /\ conversations' =
          [s \in DOMAIN conversations \cup {threads[t].session_id} |->
              IF s = threads[t].session_id THEN <<>> ELSE conversations[s]]
    /\ threads' = [threads EXCEPT ![t].pc = "message"]
    /\ last' = [op |-> "add_message", sid |-> threads[t].session_id]
    /\ UNCHANGED <<max_messages, clock, appended, out,
                   collection, llm_handler, call, req, compose, server,
                   chunker, vector_db>>

\* `message = {...}`, stamped with datetime.now()
T_Message(t) ==
    /\ threads[t].pc = "message"
    /\ threads' = [threads EXCEPT
                      ![t].pc = "append",
                      ![t].message = <<Message(threads[t].role,
                                               threads[t].content, <<>>,
                                               clock)>>]
    /\ clock' = clock + 1
    /\ last' = [op |-> "add_message", sid |-> threads[t].session_id]
    /\ UNCHANGED <<max_messages, conversations, appended, out,
                   collection, llm_handler, call, req, compose, server,
                   chunker, vector_db>>

\* `self.conversations[session_id].append(message)`, and the return
T_Append(t) ==
    /\ threads[t].pc = "append"
    /\ conversations' =
          [conversations EXCEPT ![threads[t].session_id] =
              DequeAppend(@, threads[t].message[1], max_messages)]
    /\ appended' = [appended EXCEPT ![threads[t].session_id] =
                       Append(@, threads[t].message[1])]
    /\ threads' = [threads EXCEPT ![t] = IdleThread]
    /\ last' = [op |-> "add_message", sid |-> threads[t].session_id]
    /\ UNCHANGED <<max_messages, clock, out,
                   collection, llm_handler, call, req, compose, server,
                   chunker, vector_db>>

(***************************************************************************)
(* Specifications.                                                         *)
(***************************************************************************)
\* max_messages of the memory QueryHandler and the server construct
DefaultMaxMessages == 20

\* questions asked through answer_query
Questions ==
    {"what is its cost",
     "Tell me about Data Analyst",
     "Data Analyst or Product Management?"}

\* queries of direct retrieve_context calls
Queries ==
    {"What is the cost?", "EMI options", "Payment plan and fee",
     "Who are the mentors", "Any updates?"}

\* n_results of direct retrieve_context calls: the small ones, and the one
\* answer_query passes
ResultCounts == 1..MaxResults \cup {AnswerResults}

\* course filters of direct retrieve_context calls
CourseFilters == {None, "", "Data Analyst", "product management"}

\* the index of the chatbot: chunks of the two course records
TwoCourses == {"da_cohort", "da_batch", "pm_batch"}

\* the state after construction, whatever was built
Constructed ==
    /\ conversations = <<>>
    /\ clock = 0
    /\ appended = [s \in SessionIds |-> <<>>]
    /\ last = [op |-> "__init__", sid |-> None]
    /\ out = None
    /\ call = IdleCall
    /\ req = [s \in SessionIds |-> IdleFrame]
    /\ compose = IdleCompose
    /\ chunker = IdleChunker
    /\ vector_db = IdleIndex
    /\ threads = [t \in Threads |-> IdleThread]

\* a ConversationMemory of any capacity, called directly
InitMemory ==
    /\ Constructed
    /\ server = ServerStart
    /\ max_messages \in 1..MaxCapacity
    /\ collection = {}
    /\ llm_handler = FALSE

NextMemory ==
    \/ \E s \in SessionIds, r \in Roles, c \in Contents : AddMessage(s, r, c)
    \/ \E s \in SessionIds, n \in {<<>>} \cup {<<k>> : k \in 0..MaxLastN} :
          GetHistory(s, n)
    \/ \E s \in SessionIds : GetConversationContext(s)
    \/ \E s \in SessionIds : ClearSession(s)

SpecMemory == InitMemory /\ [][NextMemory]_vars

\* a QueryHandler over any knowledge base, retrieve_context called directly
InitRetrieve ==
    /\ Constructed
    /\ server = ServerStart
    /\ max_messages = DefaultMaxMessages
    /\ collection \in SUBSET ChunkIds
    /\ llm_handler = FALSE

NextRetrieve ==
    \/ \E q \in Queries, n \in ResultCounts, f \in CourseFilters :
          RetrieveContext(q, n, f)
    \/ RetrieveReturn

SpecRetrieve == InitRetrieve /\ [][NextRetrieve]_vars

\* the chatbot: answer_query requests of several sessions, the embedder
\* and the index answering every call (SpecServer has their failures)
Init ==
    /\ Constructed
    /\ server = ServerStart
    /\ max_messages \in {MaxCapacity, DefaultMaxMessages}
    /\ collection \in {{}, TwoCourses}
    /\ llm_handler \in BOOLEAN

Next ==
    \/ \E s \in SessionIds, q \in Questions : AQ_AddUser(s, q)
    \/ \E s \in SessionIds : AQ_Resolve(s)
    \/ \E s \in SessionIds : AQ_Retrieve(s)
    \/ \E s \in SessionIds : AQ_Format(s)
    \/ \E s \in SessionIds : AQ_Respond(s)
    \/ \E s \in SessionIds : ClearSession(s)

Spec == Init /\ [][Next]_vars

\* the chunks ranked lists are drawn from
ComposeChunkIds == ChunkIds \cup {"pm_payment"}

\* ranked lists handed to direct format_answer calls: the hits of a search
\* over some stored chunks, in any ranking
RankedLists ==
    UNION {{format_results(search(ranking, Len(ranking))) :
               ranking \in Orderings(ids)} :
           ids \in {c \in SUBSET ComposeChunkIds :
                       Cardinality(c) <= MaxContexts}}

\* queries of direct format_answer calls
ComposeQueries ==
    Queries \cup {"When does it start?", "EMI and start date",
                  "Price of the course"}

\* history texts handed to direct format_answer calls
Histories == {"", "User: hello"}

\* a QueryHandler with or without a generation capability, format_answer
\* called directly
InitCompose ==
    /\ Constructed
    /\ server = ServerStart
    /\ max_messages = DefaultMaxMessages
    /\ collection = ComposeChunkIds
    /\ llm_handler \in BOOLEAN

NextCompose ==
    \/ \E q \in ComposeQueries, c \in RankedLists, h \in Histories :
          FormatAnswer(q, c, h)
    \/ ComposeReturn

SpecCompose == InitCompose /\ [][NextCompose]_vars

\* questions posted to the /query endpoint
ServerQuestions == {"what is its cost", "Tell me about Data Analyst"}

\* the server process, with or without GEMINI_API_KEY in its environment,
\* the embedder and the index able to fail
InitServer ==
    /\ Constructed
    /\ server \in {[ServerStart EXCEPT !.api_key = k] : k \in ApiKeys}
    /\ max_messages = DefaultMaxMessages
    /\ collection = TwoCourses
    /\ llm_handler = FALSE

NextServer ==
    \/ \E s \in SessionIds, q \in ServerQuestions : Query(s, q)
    \/ \E k \in ApiKeys : ConstructLLMHandler(k)
    \/ \E s \in SessionIds : AQ_Resolve(s)
    \/ \E s \in SessionIds : AQ_Retrieve(s)
    \/ \E s \in SessionIds : AQ_RetrieveRaises(s)
    \/ \E s \in SessionIds : AQ_Raise(s)
    \/ \E s \in SessionIds : AQ_Format(s)
    \/ \E s \in SessionIds : AQ_Respond(s)

SpecServer == InitServer /\ [][NextServer]_vars

\* the cohort groups of course records
Cohorts ==
    {[cohort_name |-> n, cohort_description |-> d] :
        n \in {Absent, None, "", DataAnalyst},
        d \in {Absent, None, "", "Learn SQL"}}

\* the batch groups of course records
Batches ==
    {[batch_start_date |-> b, cost |-> c, course_type |-> t] :
        b \in {None, "Jan 3"}, c \in {Absent, "32,999"}, t \in {"", "live"}}

\* curriculum lists, as the scraper collects them: no item is empty
Curricula ==
    UNION {[1..n -> {"SQL", "Python"}] : n \in 0..MaxItems}

\* the remaining groups of a record: all empty, or all filled
Rests ==
    {[instructors |-> <<>>, mentors |-> <<>>, placement_text |-> None,
      reviews |-> <<>>],
     [instructors |-> <<"Asha">>, mentors |-> <<"Ravi", "Meera">>,
      placement_text |-> "Placement support",
      reviews |-> <<"Great", "Good", "Fine", "Long">>]}

\* records handed to chunk_course_data
CourseRecords ==
    {CourseRecord("https://x/da", c, b, e, k, r) :
        c \in Cohorts, b \in Batches,
        e \in {<<>>, <<"₹11,000 x 3 months", "₹5,500 x 6 months">>},
        k \in Curricula, r \in Rests}

\* records of a catalogue, each under its own source_url
Catalogue ==
    {CourseRecord("https://x/da",
         [cohort_name |-> DataAnalyst, cohort_description |-> "Learn SQL"],
         [batch_start_date |-> None, cost |-> "32,999", course_type |-> "live"],
         <<>>, <<"SQL">>, CHOOSE r \in Rests : r.reviews = <<>>),
     CourseRecord("https://x/pm",
         [cohort_name |-> ProductManagement, cohort_description |-> None],
         [batch_start_date |-> "Jan 3", cost |-> "49,999", course_type |-> None],
         <<"₹9,000 x 6 months">>, <<"Strategy">>,
         CHOOSE r \in Rests : r.reviews # <<>>),
     CourseRecord("https://x/ba",
         [cohort_name |-> None, cohort_description |-> None],
         [batch_start_date |-> None, cost |-> None, course_type |-> None],
         <<>>, <<>>, CHOOSE r \in Rests : r.reviews = <<>>)}

\* a CourseChunker, called directly
InitChunk ==
    /\ Constructed
    /\ server = ServerStart
    /\ max_messages = DefaultMaxMessages
    /\ collection = {}
    /\ llm_handler = FALSE

NextChunk ==
    \/ \E r \in CourseRecords : ChunkCourseData(r)
    \/ \E n \in 0..MaxCourses : \E l \in [1..n -> Catalogue] :
          ChunkAllCourses(l)
    \/ ChunkerReturn

SpecChunk == InitChunk /\ [][NextChunk]_vars

\* chunks handed to add_chunks: the chunker's, with the metadata the
\* scraper left unset or collected as lists, and one with a nested dictionary
IndexChunks ==
    {[content |-> "Batch Information for " \o DataAnalyst \o ":\nCost: 32,999",
      metadata |-> [type |-> S("batch"), cost |-> S("32,999"),
                    batch_start_date |-> NoneValue]],
     [content |-> "Payment Options for " \o DataAnalyst
                    \o ":\nEMI Options:\n- ₹11,000 x 3 months\n- ₹5,500 x 6 months",
      metadata |-> [type |-> S("payment"),
                    emi_options |-> L(<<S("₹11,000 x 3 months"),
                                        S("₹5,500 x 6 months")>>)]],
     [content |-> "Curriculum for " \o DataAnalyst \o ": SQL",
      metadata |-> [type |-> S("curriculum"), item_index |-> I(0)]],
     [content |-> "Instructors and Mentors for " \o DataAnalyst
                    \o ":\nMentors: Ravi",
      metadata |-> [type |-> S("mentors_instructors"),
                    instructors |-> L(<<>>), mentors |-> L(<<S("Ravi")>>)]],
     [content |-> "Cohort: " \o DataAnalyst,
      metadata |-> [type |-> S("cohort"),
                    batch |-> D([cost |-> S("32,999")])]]}

\* embedding vectors
Vectors == {<<1, 0>>}

\* a VectorDB over a new collection, add_chunks called directly
InitIndex ==
    /\ Constructed
    /\ server = ServerStart
    /\ max_messages = DefaultMaxMessages
    /\ collection = {}
    /\ llm_handler = FALSE

NextIndex ==
    \/ \E n, m \in 0..MaxChunks :
          \E chunks \in [1..n -> IndexChunks], embeddings \in [1..m -> Vectors] :
             AddChunks(chunks, embeddings)
    \/ GetCollectionInfo
    \/ IndexReturn

SpecIndex == InitIndex /\ [][NextIndex]_vars

\* a ConversationMemory shared by threads that call add_message
InitThreads ==
    /\ Constructed
    /\ server = ServerStart
    /\ max_messages \in 1..MaxCapacity
    /\ collection = {}
    /\ llm_handler = FALSE

NextThreads ==
    \/ \E t \in Threads, s \in SessionIds, c \in Contents :
          T_Test(t, s, "user", c)
    \/ \E t \in Threads : T_Create(t)
    \/ \E t \in Threads : T_Message(t)
    \/ \E t \in Threads : T_Append(t)

SpecThreads == InitThreads /\ [][NextThreads]_vars

(***************************************************************************)
(* Properties of ConversationMemory, checked under SpecMemory.             *)
(***************************************************************************)
\* the elements of a sequence
Range(seq) == {seq[i] : i \in 1..Len(seq)}

\* C1: get_history of a session returns exactly the most recent
\* min(k, max_messages) of the k messages appended to it since it was created
\* or last cleared, oldest first, and never more than max_messages of them.
C1_SlidingWindow ==
    \A s \in SessionIds :
        LET k == Len(appended[s])
            history == get_history(conversations, s, <<>>)
        IN  /\ Len(history) = Min(k, max_messages)
            /\ Len(history) <= max_messages
            /\ \A i \in 1..Len(history) :
                  history[i] = appended[s][k - Len(history) + i]

\* C1 witness: a session holding max_messages >= 2 messages after more than
\* max_messages were appended to it
C1_Evicted ==
    \E s \in DOMAIN conversations :
        /\ max_messages >= 2
        /\ Len(appended[s]) > max_messages
        /\ Len(conversations[s]) = max_messages

\* the text get_conversation_context must render from a list of messages
RenderedText(messages) ==
    join("\n", [i \in 1..Len(messages) |->
        (IF messages[i].role = "user" THEN "User" ELSE "Assistant")
            \o ": " \o messages[i].content])

\* C2: an operation on one session leaves the history of every other session
\* as it was, and the history and the context text of a session hold only
\* messages that were appended with that session's id.
C2_SessionsIndependent ==
    [][\A b \in SessionIds :
          /\ b # last'.sid =>
                /\ (b \in DOMAIN conversations') = (b \in DOMAIN conversations)
                /\ get_history(conversations', b, <<>>)
                      = get_history(conversations, b, <<>>)
          /\ Range(get_history(conversations', b, <<>>)) \subseteq Range(appended'[b])
          /\ get_conversation_context(conversations', b)
                = RenderedText(LastN(appended'[b],
                                     Min(Len(appended'[b]), max_messages)))
      ]_vars

\* C2 witness: session s1 was cleared while session s2 holds two messages
\* between which a message of s1 was appended
C2_Interleaved ==
    /\ last.op = "clear_session" /\ last.sid = "s1"
    /\ "s2" \in DOMAIN conversations
    /\ Len(conversations["s2"]) >= 2
    /\ conversations["s2"][1].timestamp + 1 < conversations["s2"][2].timestamp

(***************************************************************************)
(* Properties of answer_query, checked under Spec.                         *)
(***************************************************************************)
\* the newest message the memory holds for a session
Newest(convs, s) == get_history(convs, s, <<1>>)[1]

\* C3: answer_query appends the user turn, then resolves the course filter
\* from the session's history text, which already holds the question, then
\* retrieves, then composes, and only then appends the assistant turn with
\* the composed answer and its source_url: two appended turns in all, the
\* user's and then the assistant's.
C3_AnswerQueryOrder ==
    [][\A s \in SessionIds :
          LET f == req[s]
              g == req'[s]
              grown == Len(appended'[s]) - Len(appended[s])
          IN  /\ f.pc # g.pc =>
                    <<f.pc, g.pc>> \in {<<"idle", "resolve">>,
                        <<"resolve", "retrieve">>, <<"retrieve", "format">>,
                        <<"format", "respond">>, <<"respond", "idle">>}
              /\ (f.pc = "idle" /\ g.pc = "resolve") =>
                    /\ grown = 1
                    /\ Newest(conversations', s).role = "user"
                    /\ Newest(conversations', s).content = g.query
                    /\ Newest(conversations', s) = appended'[s][g.base + 1]
              /\ (f.pc = "resolve" /\ g.pc = "retrieve") =>
                    /\ grown = 0
                    /\ g.conversation_history = RenderedText(conversations[s])
                    /\ In("User: " \o f.query, g.conversation_history)
                    /\ g.course_filter # None =>
                          \E e \in Range(course_keywords) :
                             /\ e.course_name = g.course_filter
                             /\ In(e.keyword, lower(g.conversation_history))
              /\ (f.pc = "retrieve" /\ g.pc = "format") =>
                    /\ grown = 0
                    /\ g.course_filter = f.course_filter
                    /\ g.conversation_history = f.conversation_history
              /\ (f.pc = "format" /\ g.pc = "respond") =>
                    /\ grown = 0
                    /\ g.result.source_url =
                          IF f.contexts = <<>> THEN None
                          ELSE f.contexts[1].metadata.source_url
              /\ (f.pc = "respond" /\ g.pc = "idle") =>
                    /\ grown = 1
                    /\ Len(appended'[s]) = f.base + 2
                    /\ appended'[s][f.base + 1].role = "user"
                    /\ appended'[s][f.base + 1].content = f.query
                    /\ Newest(conversations', s) = appended'[s][f.base + 2]
                    /\ Newest(conversations', s).role = "assistant"
                    /\ Newest(conversations', s).content = f.result.answer
                    /\ Newest(conversations', s).metadata
                          = [source_url |-> f.result.source_url]
                    /\ out' = f.result
      ]_vars

\* C3 witness: an answer_query has returned a sourced answer to a session
\* while the other session's request was in progress
C3_Answered ==
    \E s \in SessionIds :
        /\ last = [op |-> "answer_query", sid |-> s]
        /\ req[s].pc = "idle"
        /\ Len(appended[s]) = 2
        /\ appended[s][2].role = "assistant"
        /\ appended[s][2].metadata.source_url = "https://x/da"
        /\ \E t \in SessionIds \ {s} : req[t].pc = "format"

\* a chunk of the Data Analyst course
IsDataAnalyst(c) == In("Data Analyst", c.metadata.cohort_name)

\* the case of C9: the index holds chunks of both courses, and the question
\* is "what is its cost" in a session whose history text mentions "data
\* analyst"; the state after retrieval
C9_Case(s) ==
    /\ collection = TwoCourses
    /\ req[s].pc = "format"
    /\ req[s].query = "what is its cost"
    /\ In("data analyst", lower(req[s].conversation_history))

\* C9 as claimed: the filter resolves to "Data Analyst" and every returned
\* Data Analyst chunk precedes every returned chunk of the other course.
C9_DataAnalystFirst ==
    \A s \in SessionIds :
        C9_Case(s) =>
            /\ req[s].course_filter = "Data Analyst"
            /\ \A i, j \in 1..Len(req[s].contexts) :
                  (IsDataAnalyst(req[s].contexts[i])
                     /\ ~IsDataAnalyst(req[s].contexts[j])) => i < j

\* C9 amended: when the history text does not also mention "product
\* management", the filter resolves to "Data Analyst"; the query contains
\* "cost", so the batch chunks are returned first and the other chunks after
\* them, and inside each of these two groups the Data Analyst chunks precede
\* the chunks of the other course; the first returned chunk is the Data
\* Analyst batch chunk.
C9_DataAnalystFirstPerType ==
    \A s \in SessionIds :
        (C9_Case(s) /\ ~In("product management",
                           lower(req[s].conversation_history))) =>
            LET contexts == req[s].contexts
                IsBatch(c) == c.metadata.type = "batch"
            IN  /\ req[s].course_filter = "Data Analyst"
                /\ \A i, j \in 1..Len(contexts) :
                      (IsBatch(contexts[i]) /\ ~IsBatch(contexts[j])) => i < j
                /\ \A i, j \in 1..Len(contexts) :
                      (/\ IsBatch(contexts[i]) = IsBatch(contexts[j])
                       /\ IsDataAnalyst(contexts[i])
                       /\ ~IsDataAnalyst(contexts[j])) => i < j
                /\ contexts # <<>>
                /\ IsDataAnalyst(contexts[1]) /\ IsBatch(contexts[1])

\* C9 witness: the case, with chunks of both courses retrieved
C9_Retrieved ==
    \E s \in SessionIds :
        /\ C9_Case(s)
        /\ ~In("product management", lower(req[s].conversation_history))
        /\ \E i, j \in 1..Len(req[s].contexts) :
              IsDataAnalyst(req[s].contexts[i]) /\ ~IsDataAnalyst(req[s].contexts[j])

\* the fixed keyword table of course-reference resolution
C10_Table ==
    <<<<"product management", "Product Management">>,
      <<"data analyst", "Data Analyst">>,
      <<"business analyst", "Business Analyst">>,
      <<"ui ux", "UI UX Design">>,
      <<"ui/ux", "UI UX Design">>>>

\* C10: the course filter of a request is the canonical name of the first
\* table entry whose keyword occurs in the lower-cased history text of the
\* requesting session, and None when no keyword occurs; no other session's
\* history enters.
C10_FirstMatchWins ==
    \A s \in SessionIds :
        req[s].pc \in {"retrieve", "format", "respond"} =>
            LET text == lower(RenderedText(get_history(conversations, s, <<>>)))
                hits == {i \in 1..Len(C10_Table) : In(C10_Table[i][1], text)}
            IN  /\ hits = {} => req[s].course_filter = None
                /\ hits # {} =>
                      \E i \in hits :
                         /\ \A j \in hits : i <= j
                         /\ req[s].course_filter = C10_Table[i][2]

\* C10 witness: a history text naming two courses resolves to the one that
\* comes first in the table, while the other session's text names only the
\* other course
C10_TwoCoursesNamed ==
    \E s \in SessionIds, t \in SessionIds :
        /\ s # t
        /\ req[s].pc = "retrieve"
        /\ In("data analyst", lower(req[s].conversation_history))
        /\ req[s].course_filter = "Product Management"
        /\ req[t].pc = "retrieve"
        /\ req[t].course_filter = "Data Analyst"

(***************************************************************************)
(* Properties of retrieve_context, checked under SpecRetrieve.             *)
(***************************************************************************)
\* the place of an entry in a list without repetitions
Pos(seq, x) == CHOOSE i \in 1..Len(seq) : seq[i] = x

HasPaymentKeyword(query) ==
    \E k \in {"emi", "installment", "payment", "pay"} : In(k, lower(query))

HasBatchKeyword(query) ==
    \E k \in {"start", "date", "when", "cost", "price", "fee"} :
        In(k, lower(query))

\* the group of a chunk in a reordering: for "payment", payment chunks 0,
\* batch chunks 1, others 2; for "batch", batch chunks 0, others 1
Class(kind, c) ==
    CASE kind = "payment" /\ c.metadata.type = "payment" -> 0
      [] kind = "payment" /\ c.metadata.type = "batch" -> 1
      [] kind = "payment" -> 2
      [] kind = "batch" /\ c.metadata.type = "batch" -> 0
      [] OTHER -> 1

\* result is the first n entries of list, stably partitioned by Class
IsPartitionPrefix(result, list, n, kind) ==
    /\ Len(result) = Min(n, Len(list))
    /\ Range(result) \subseteq Range(list)
    /\ \A i, j \in 1..Len(result) :
          i < j =>
            \/ Class(kind, result[i]) < Class(kind, result[j])
            \/ /\ Class(kind, result[i]) = Class(kind, result[j])
               /\ Pos(list, result[i]) < Pos(list, result[j])
    /\ \A c \in Range(list) \ Range(result) :
          \A i \in 1..Len(result) :
            \/ Class(kind, result[i]) < Class(kind, c)
            \/ /\ Class(kind, result[i]) = Class(kind, c)
               /\ Pos(list, result[i]) < Pos(list, c)

\* C4: for a query with a payment keyword (in any letter case, with or
\* without a batch keyword), the result is the first n of: all payment
\* chunks, then all batch chunks, then all other chunks, each group in the
\* order it had in the course-partitioned candidate list.
C4_PaymentThenBatch ==
    (call.pc = "returned" /\ HasPaymentKeyword(call.query)) =>
        IsPartitionPrefix(call.result, call.filtered, call.n_results,
                          "payment")

\* C4 witness: a query with a payment and a batch keyword returned a payment,
\* a batch and another chunk, in this order, which the index had ranked in
\* another order
C4_PaymentBoosted ==
    /\ call.pc = "returned"
    /\ call.query = "Payment plan and fee"
    /\ Len(call.result) = 3
    /\ call.result[1].metadata.type = "payment"
    /\ call.result[2].metadata.type = "batch"
    /\ call.result[3].metadata.type = "cohort"
    /\ call.candidates[1].metadata.type = "cohort"
    /\ call.candidates[Len(call.candidates)].metadata.type = "payment"

\* C5: for a query with a batch keyword and no payment keyword, the result
\* is the first n of: all batch chunks, then all other chunks, each group in
\* the order it had in the course-partitioned candidate list; so the first
\* result is a batch chunk whenever a batch chunk is among the candidates.
C5_BatchFirst ==
    (/\ call.pc = "returned"
     /\ HasBatchKeyword(call.query)
     /\ ~HasPaymentKeyword(call.query)) =>
        /\ IsPartitionPrefix(call.result, call.filtered, call.n_results,
                             "batch")
        /\ (\E c \in Range(call.candidates) : c.metadata.type = "batch") =>
              /\ call.result # <<>>
              /\ call.result[1].metadata.type = "batch"

\* C5 witness: the only result of a cost query is the batch chunk the index
\* had ranked last of five
C5_BatchBoosted ==
    /\ call.pc = "returned"
    /\ call.query = "What is the cost?"
    /\ call.n_results = 1
    /\ Len(call.candidates) = 5
    /\ call.candidates[5] = call.result[1]
    /\ call.result[1].metadata.type = "batch"

\* C6: for a query with no intent keyword, the result is exactly the first n
\* entries of the course-partitioned candidate list, which is the index's
\* own order when no course filter is given.
C6_NoKeywordNoReorder ==
    (/\ call.pc = "returned"
     /\ ~HasBatchKeyword(call.query)
     /\ ~HasPaymentKeyword(call.query)) =>
        /\ call.result = Take(call.filtered, call.n_results)
        /\ call.course_filter \in {None, ""} =>
              call.result = Take(call.candidates, call.n_results)

\* C6 witness: a query without keywords returned the nearest chunks, neither
\* a batch nor a payment chunk leading although both were candidates
C6_Unboosted ==
    /\ call.pc = "returned"
    /\ call.query = "Who are the mentors"
    /\ call.course_filter = None
    /\ call.n_results = 2
    /\ Len(call.candidates) = 5
    /\ call.result[1].metadata.type = "cohort"
    /\ call.result[2].metadata.type = "cohort"

\* the cohort name of a chunk contains the filter, letter case ignored
C7_Matches(c, course_filter) ==
    In(lower(course_filter), lower(c.metadata.cohort_name))

\* C7: with a course filter, the course-filter step is a stable partition of
\* the candidates: the chunks whose cohort name contains the filter (letter
\* case ignored) come first, the others after, each group in the index's
\* nearest-neighbour order.
C7_StablePartition ==
    (call.pc = "returned" /\ call.course_filter \notin {None, ""}) =>
        /\ Len(call.filtered) = Len(call.candidates)
        /\ Range(call.filtered) = Range(call.candidates)
        /\ \A i, j \in 1..Len(call.filtered) :
              i < j =>
                LET x == call.filtered[i]
                    y == call.filtered[j]
                    mx == C7_Matches(x, call.course_filter)
                    my == C7_Matches(y, call.course_filter)
                IN  /\ ~(~mx /\ my)
                    /\ mx = my => x.distance < y.distance

\* C7 witness: a lower-case filter moved two Product Management chunks, in
\* their order, ahead of the Data Analyst chunk the index had ranked first
C7_Partitioned ==
    /\ call.pc = "returned"
    /\ call.course_filter = "product management"
    /\ Len(call.candidates) >= 3
    /\ call.candidates[1].metadata.cohort_name = DataAnalyst
    /\ call.filtered[1].metadata.cohort_name = ProductManagement
    /\ call.filtered[2].metadata.cohort_name = ProductManagement
    /\ call.filtered[3] = call.candidates[1]

\* C8: the result is the prefix of length min(n, c) of a permutation of the
\* c candidates the index returned: every returned chunk is a candidate, none
\* appears twice, the candidates are stored chunks, at most the over-fetched
\* number of them, and the result is never longer than n.
C8_PrefixOfPermutation ==
    call.pc = "returned" =>
        /\ Len(call.result) = Min(call.n_results, Len(call.candidates))
        /\ Len(call.result) <= call.n_results
        /\ Len(call.candidates) <= call.search_n
        /\ Range(call.result) \subseteq Range(call.candidates)
        /\ \A i, j \in 1..Len(call.result) :
              call.result[i] = call.result[j] => i = j
        /\ \A c \in Range(call.candidates) :
              \E id \in collection :
                 /\ c.content = ChunkOf(id).content
                 /\ c.metadata = ChunkOf(id).metadata

\* C8 witness: three of five candidates returned, reordered
C8_Truncated ==
    /\ call.pc = "returned"
    /\ Len(call.candidates) = 5
    /\ call.n_results = 3
    /\ Len(call.result) = 3
    /\ call.result # Take(call.candidates, 3)

(***************************************************************************)
(* Properties of format_answer, checked under SpecCompose (C12 under Spec).*)
(***************************************************************************)
\* C11: for a non-empty ranked list, the source_url format_answer returns is
\* the source_url metadata of the first ranked chunk, on every composition
\* path: generation succeeded, quota fallback, other generation error, no
\* generation capability.
C11_SourceOfFirstChunk ==
    (compose.pc = "returned" /\ compose.contexts # <<>>) =>
        /\ compose.raised = None
        /\ compose.result.source_url = compose.contexts[1].metadata.source_url

\* C11 witness: a quota fallback composed from two chunks of different
\* pages
C11_TwoSources ==
    /\ compose.pc = "returned"
    /\ Len(compose.contexts) = 2
    /\ compose.contexts[1].metadata.source_url
          # compose.contexts[2].metadata.source_url
    /\ compose.llm = [kind |-> "error", text |-> "429 Quota exceeded"]
    /\ compose.result.source_url = "https://x/pm"

\* C12: for an empty ranked list format_answer returns the fixed "couldn't
\* find relevant information" answer with a null source_url, without
\* invoking the generation capability, and answer_query then appends that
\* answer as the assistant turn.
C12_EmptyRetrievalAnswered ==
    [][\A s \in SessionIds :
          LET f == req[s]
              g == req'[s]
          IN  /\ (f.pc = "format" /\ f.contexts = <<>> /\ g.pc # f.pc) =>
                    /\ g.pc = "respond"
                    /\ g.generate_calls = 0
                    /\ g.result.answer
                          = "I couldn't find relevant information to answer your question."
                    /\ g.result.source_url = None
              /\ (f.pc = "respond" /\ f.result.source_url = None
                    /\ g.pc # f.pc) =>
                    /\ g.pc = "idle"
                    /\ out' = f.result
                    /\ Len(appended'[s]) = Len(appended[s]) + 1
                    /\ Newest(conversations', s).role = "assistant"
                    /\ Newest(conversations', s).content
                          = "I couldn't find relevant information to answer your question."
                    /\ Newest(conversations', s).metadata
                          = [source_url |-> None]
      ]_vars

\* C12 witness: a handler with a generation capability has answered a
\* question over an empty index
C12_NothingFound ==
    \E s \in SessionIds :
        /\ llm_handler
        /\ collection = {}
        /\ last = [op |-> "answer_query", sid |-> s]
        /\ req[s].pc = "idle"
        /\ out = [answer |-> NoAnswer, source_url |-> None, contexts_used |-> 0]
        /\ Newest(conversations, s).content = NoAnswer

\* the error text is quota-shaped: "quota" in any case, or "429"
C13_QuotaShaped(text) == In("quota", lower(text)) \/ In("429", text)

\* the costs of the ranked chunks that carry one, in rank order
C13_Costs(contexts) ==
    LET priced == SelectSeq(contexts, LAMBDA c : c.metadata.cost # "")
    IN  [i \in 1..Len(priced) |-> priced[i].metadata.cost]

\* C13 as stated: on a quota-shaped error the composer raises nothing and
\* returns the deterministic extraction, and for "What is the cost?" with
\* some ranked chunk of cost "32,999" the answer contains "32,999".
C13_QuotaFallback ==
    (/\ compose.pc = "returned"
     /\ compose.llm.kind = "error"
     /\ C13_QuotaShaped(compose.llm.text)) =>
        /\ compose.raised = None
        /\ ~In("I encountered an error", compose.result.answer)
        /\ (/\ compose.query = "What is the cost?"
            /\ "32,999" \in Range(C13_Costs(compose.contexts))) =>
              In("32,999", compose.result.answer)

\* C13 amended: on a quota-shaped error the composer raises nothing and
\* returns the deterministic extraction; for "What is the cost?" the answer
\* states the cost of the first ranked chunk that carries one, so it
\* contains "32,999" when that chunk's cost is "32,999".
C13_QuotaFallbackFirstCost ==
    (/\ compose.pc = "returned"
     /\ compose.llm.kind = "error"
     /\ C13_QuotaShaped(compose.llm.text)) =>
        /\ compose.raised = None
        /\ ~In("I encountered an error", compose.result.answer)
        /\ (/\ compose.query = "What is the cost?"
            /\ C13_Costs(compose.contexts) # <<>>) =>
              /\ compose.result.answer
                    = "The cost is ₹" \o C13_Costs(compose.contexts)[1]
                        \o "\n\nSource: " \o compose.result.source_url
              /\ C13_Costs(compose.contexts)[1] = "32,999" =>
                    In("32,999", compose.result.answer)

\* C13 witness: the quota error is recognised by the word alone, in upper
\* case, and the answer is extracted from a chunk that is not ranked first
C13_FellBack ==
    /\ compose.pc = "returned"
    /\ compose.llm = [kind |-> "error", text |-> "Daily QUOTA used up"]
    /\ compose.query = "What is the cost?"
    /\ Len(compose.contexts) = 2
    /\ compose.contexts[1].metadata.cost = ""
    /\ compose.contexts[2].metadata.cost = "32,999"
    /\ In("32,999", compose.result.answer)

\* C14: a generation failure that is not quota-shaped yields an apologetic
\* answer embedding the error text, with the source_url of the first ranked
\* chunk; no generation failure leaves format_answer as an exception.
C14_OtherErrorsAnswered ==
    (compose.pc = "returned" /\ compose.contexts # <<>>) =>
        /\ compose.raised = None
        /\ (/\ compose.llm.kind = "error"
            /\ ~C13_QuotaShaped(compose.llm.text)) =>
              /\ compose.result.answer
                    = "I encountered an error while generating the answer. Please try again. Error: "
                        \o compose.llm.text
              /\ compose.result.source_url
                    = compose.contexts[1].metadata.source_url
              /\ compose.result.contexts_used = Len(compose.contexts)

\* C14 witness: generation failed with an error that names no quota
C14_Apologised ==
    /\ compose.pc = "returned"
    /\ compose.contexts # <<>>
    /\ compose.llm = [kind |-> "error", text |-> "503 unavailable"]
    /\ In("503 unavailable", compose.result.answer)
    /\ compose.result.source_url # None

(***************************************************************************)
(* Properties of the failure paths, checked under SpecServer.              *)
(***************************************************************************)
\* C15: an error of the embedding call or of the index search during
\* answer_query reaches the caller and nothing is retried: in one call the
\* embedder and the index are each invoked at most once, the index not at
\* all after a failed embedding, and no answer is composed or recorded.
C15_RetrievalErrorsPropagate ==
    [][\A s \in SessionIds :
          LET f == req[s]
              g == req'[s]
          IN  /\ g.embed_calls <= 1
              /\ g.search_calls <= 1
              /\ (f.pc = "retrieve" /\ g.pc # f.pc) =>
                    g.pc \in {"format", "raised"}
              /\ g.pc = "raised" =>
                    /\ g.error \in {"EmbeddingError", "IndexError"}
                    /\ g.embed_calls = 1
                    /\ g.search_calls
                          = IF g.error = "EmbeddingError" THEN 0 ELSE 1
                    /\ g.generate_calls = 0
                    /\ g.result.answer = ""
              /\ (f.pc = "raised" /\ g.pc # f.pc) =>
                    /\ g.pc = "idle"
                    /\ out' = [error |-> f.error]
                    /\ conversations' = conversations
                    /\ appended'[s] = appended[s]
                    /\ Newest(conversations', s).role = "user"
      ]_vars

\* C15 witness: a request failed in the embedding call and its caller has
\* the error; the question is the session's newest message
C15_EmbeddingFailed ==
    \E s \in SessionIds :
        /\ last = [op |-> "answer_query", sid |-> s]
        /\ req[s].pc = "idle"
        /\ out = [error |-> "EmbeddingError"]
        /\ Newest(conversations, s).role = "user"

\* C16: without a generation API key, constructing GeminiLLMHandler raises,
\* and get_query_handler raises on every invocation without installing or
\* returning a handler: every request runs the initialisation again and
\* ends with the error, none is answered by a handler without generation.
C16_MissingKeyIsFatal ==
    [][/\ last'.op = "GeminiLLMHandler" =>
            (out'.error # None
                <=> (last'.sid \in {None, ""} /\ server.api_key \in {None, ""}))
       /\ server.api_key \in {None, ""} =>
            /\ server'.api_key = server.api_key
            /\ ~server'._query_handler
            /\ ~server'._llm_handler
            /\ ~llm_handler'
            /\ conversations' = <<>>
            /\ \A s \in SessionIds : req'[s].pc = "idle"
            /\ last'.op = "query" =>
                  /\ server'.attempts = server.attempts + 1
                  /\ out' = [error |->
                        "GEMINI_API_KEY environment variable is required"]
      ]_vars

\* C16 witness: with the variable set to the empty string, a second request
\* has run the initialisation again and failed like the first
C16_FailedAgain ==
    /\ server.api_key = ""
    /\ server.attempts = 2
    /\ ~server._query_handler
    /\ last.op = "query"
    /\ out = [error |-> "GEMINI_API_KEY environment variable is required"]

(***************************************************************************)
(* Properties of CourseChunker, checked under SpecChunk.                   *)
(***************************************************************************)
\* the chunks of one type, in output order
OfType(chunks, type) == SelectSeq(chunks, LAMBDA c : c.metadata.type = type)

\* a field of a record that is there and not empty
NonEmpty(value) == value \notin {Absent, None, ""}

\* C17: a record whose curriculum list holds N non-empty items yields
\* exactly N curriculum chunks, one per item in the items' order, with
\* item_index 0..N-1.
C17_OneChunkPerItem ==
    chunker.pc = "chunk_course_data" =>
        LET items == chunker.courses_data[1].curriculum.curriculum
            emitted == OfType(chunker.chunks, "curriculum")
        IN  (\A i \in 1..Len(items) : items[i] # "") =>
              /\ Len(emitted) = Len(items)
              /\ \A i \in 1..Len(items) :
                    /\ emitted[i].metadata.item_index = i - 1
                    /\ \E prefix \in {"Curriculum for Unknown: ",
                                      "Curriculum for None: ",
                                      "Curriculum for : ",
                                      "Curriculum for " \o DataAnalyst \o ": "} :
                          emitted[i].content = prefix \o items[i]

\* C17 witness: a list that names the same item twice gave two chunks
C17_TwoItems ==
    /\ chunker.pc = "chunk_course_data"
    /\ chunker.courses_data[1].curriculum.curriculum = <<"Python", "Python">>
    /\ Len(OfType(chunker.chunks, "curriculum")) = 2
    /\ OfType(chunker.chunks, "curriculum")[2].metadata.item_index = 1

\* C18: a batch chunk is emitted if and only if the start date, the cost or
\* the course type is present: none of them gives no batch chunk, any of
\* them exactly one, whose content holds every present field.
C18_BatchIffAnyField ==
    chunker.pc = "chunk_course_data" =>
        LET batch == chunker.courses_data[1].batch
            emitted == OfType(chunker.chunks, "batch")
            given == {v \in {batch.batch_start_date, batch.cost,
                             batch.course_type} : NonEmpty(v)}
        IN  /\ Len(emitted) = IF given = {} THEN 0 ELSE 1
            /\ given # {} =>
                  /\ \A v \in given : In(v, emitted[1].content)
                  /\ NonEmpty(batch.batch_start_date) =>
                        In("Start Date: " \o batch.batch_start_date,
                           emitted[1].content)
                  /\ NonEmpty(batch.cost) =>
                        In("Cost: " \o batch.cost, emitted[1].content)
                  /\ NonEmpty(batch.course_type) =>
                        In("Course Type: " \o batch.course_type,
                           emitted[1].content)

\* C18 witness: a record with no batch field gave chunks, none of them a
\* batch chunk
C18_NoBatchFields ==
    /\ chunker.pc = "chunk_course_data"
    /\ ~NonEmpty(chunker.courses_data[1].batch.batch_start_date)
    /\ ~NonEmpty(chunker.courses_data[1].batch.cost)
    /\ ~NonEmpty(chunker.courses_data[1].batch.course_type)
    /\ chunker.chunks # <<>>
    /\ OfType(chunker.chunks, "batch") = <<>>

\* C19: exactly one cohort chunk when the cohort name or the description is
\* non-empty, none when both are empty or absent.
C19_CohortConditional ==
    chunker.pc = "chunk_course_data" =>
        LET cohort == chunker.courses_data[1].cohort
        IN  Len(OfType(chunker.chunks, "cohort"))
              = IF NonEmpty(cohort.cohort_name)
                   \/ NonEmpty(cohort.cohort_description)
                THEN 1 ELSE 0

\* C19 failing input: a record whose cohort name and description are both
\* empty strings gave a cohort chunk that holds the two labels only
C19_LabelOnlyCohort ==
    /\ chunker.pc = "chunk_course_data"
    /\ chunker.courses_data[1].cohort
          = [cohort_name |-> "", cohort_description |-> ""]
    /\ Len(OfType(chunker.chunks, "cohort")) = 1
    /\ OfType(chunker.chunks, "cohort")[1].content = "Cohort: \nDescription:"

\* the chunk types of the knowledge base
C20_Types ==
    {"cohort", "batch", "payment", "curriculum", "mentors_instructors",
     "placements", "reviews"}

\* C20: every chunk of a record has non-empty content, one of the seven
\* types, and the cohort_name and the source_url of its record, the same in
\* all the record's chunks; chunk_all_courses tags no chunk with the
\* source_url of one record and the cohort_name of another.
C20_ChunksTraceToTheirRecord ==
    LET Name(r) == Get(r.cohort.cohort_name, "Unknown")
    IN  /\ chunker.pc # "idle" =>
              \A i \in 1..Len(chunker.chunks) :
                  LET c == chunker.chunks[i]
                  IN  /\ c.content # ""
                      /\ c.metadata.type \in C20_Types
                      /\ \E r \in Range(chunker.courses_data) :
                            /\ c.metadata.source_url = r.source_url
                            /\ c.metadata.cohort_name = Name(r)
        /\ chunker.pc = "chunk_course_data" =>
              \A i, j \in 1..Len(chunker.chunks) :
                  /\ chunker.chunks[i].metadata.cohort_name
                        = chunker.chunks[j].metadata.cohort_name
                  /\ chunker.chunks[i].metadata.source_url
                        = chunker.chunks[j].metadata.source_url

\* C20 witness: chunk_all_courses has chunked two records of different pages
C20_TwoRecords ==
    /\ chunker.pc = "chunk_all_courses"
    /\ Len(chunker.courses_data) = 2
    /\ chunker.courses_data[1].source_url = "https://x/da"
    /\ chunker.courses_data[2].source_url = "https://x/pm"
    /\ \E i, j \in 1..Len(chunker.chunks) :
          /\ i < j
          /\ chunker.chunks[i].metadata.source_url = "https://x/da"
          /\ chunker.chunks[j].metadata.source_url = "https://x/pm"

(***************************************************************************)
(* Properties of VectorDB, checked under SpecIndex.                        *)
(***************************************************************************)
\* C21: an add_chunks call whose chunk list and embedding list differ in
\* length raises before collection.add is called: the records of the
\* collection and the chunk count get_collection_info reports are those of
\* before the call.
C21_MismatchWritesNothing ==
    [][(/\ vector_db.pc = "idle"
        /\ vector_db'.pc = "add_chunks"
        /\ Len(vector_db'.chunks) # Len(vector_db'.embeddings))
       => (/\ vector_db'.raised
                = "ValueError: Number of chunks must match number of embeddings"
           /\ ~vector_db'.handed
           /\ vector_db'.records = vector_db.records
           /\ collection' = collection
           /\ get_collection_info(collection').chunk_count
                = get_collection_info(collection).chunk_count)]_vars

\* a mismatched call was made on a collection that holds a chunk already
C21_Mismatched ==
    /\ vector_db.pc = "add_chunks"
    /\ Len(vector_db.chunks) = 2
    /\ Len(vector_db.embeddings) = 1
    /\ vector_db.raised # None
    /\ Cardinality(collection) = 1

\* the elements of a list value, each rendered as text, joined with ", "
C22_CommaJoined(items) == join(", ", [i \in 1..Len(items) |-> str(items[i])])

\* C22: after a successful add_chunks, every metadata value handed to
\* collection.add is a scalar: a list-valued field is the comma-joined
\* string of its elements, a None value is the empty string, and every
\* other value is the one the chunk carried.
C22_MetadataNormalised ==
    (vector_db.pc = "add_chunks" /\ vector_db.raised = None) =>
        /\ vector_db.handed
        /\ Len(vector_db.metadatas) = Len(vector_db.chunks)
        /\ \A i \in 1..Len(vector_db.chunks) :
              LET given == vector_db.chunks[i].metadata
                  handed == vector_db.metadatas[i]
              IN  /\ DOMAIN handed = DOMAIN given
                  /\ \A key \in DOMAIN given :
                        /\ IsScalar(handed[key])
                        /\ handed[key] =
                              IF IsList(given[key])
                              THEN S(C22_CommaJoined(given[key].list))
                              ELSE IF IsNone(given[key]) THEN S("")
                              ELSE given[key]

\* a successful call handed over a joined list and an emptied None
C22_Normalised ==
    /\ vector_db.pc = "add_chunks"
    /\ vector_db.raised = None
    /\ \E i, j \in 1..Len(vector_db.chunks) :
          /\ vector_db.chunks[i].metadata.type = S("batch")
          /\ IsNone(vector_db.chunks[i].metadata.batch_start_date)
          /\ vector_db.metadatas[i].batch_start_date = S("")
          /\ vector_db.chunks[j].metadata.type = S("payment")
          /\ vector_db.metadatas[j].emi_options
                = S("₹11,000 x 3 months, ₹5,500 x 6 months")

(***************************************************************************)
(* Properties of get_history, checked under SpecMemory.                    *)
(***************************************************************************)
\* the most recent min(n, h) turns of a history of h turns, oldest first
C23_Tail(history, n) ==
    SubSeq(history, Len(history) - Min(n, Len(history)) + 1, Len(history))

\* C23: get_history(session, lastN) with lastN >= 0 returns the most recent
\* min(lastN, h) of the session's h stored turns, in chronological order;
\* with lastN omitted it returns the whole history, and for an unknown
\* session the empty list.
C23_TailOfHistory ==
    last.op = "get_history" =>
        LET history == IF last.sid \in DOMAIN conversations
                       THEN conversations[last.sid] ELSE <<>>
        IN  out = IF last.sid \notin DOMAIN conversations THEN <<>>
                  ELSE IF last.last_n = <<>> THEN history
                  ELSE C23_Tail(history, last.last_n[1])

\* get_history(session, 0) returned both turns of a session that holds two
C23_ZeroReturnsAll ==
    /\ last.op = "get_history"
    /\ last.last_n = <<0>>
    /\ last.sid \in DOMAIN conversations
    /\ Len(conversations[last.sid]) = 2
    /\ out = conversations[last.sid]

(***************************************************************************)
(* Properties of the deterministic extraction, checked under SpecCompose.  *)
(***************************************************************************)
\* format_answer composed the answer by deterministic extraction: through
\* _extract_answer_simple, or through the fallback of a quota-shaped error
C24_Extracted ==
    /\ compose.pc = "returned"
    /\ compose.contexts # <<>>
    /\ \/ ~llm_handler
       \/ compose.llm.kind = "error" /\ QuotaShaped(compose.llm.text)

\* C24: for every query and every non-empty ranked list, the answer of the
\* no-generation path (_extract_answer_simple) and the answer of the quota
\* fallback (_extract_from_context) are the same: whichever path composed
\* the answer, it is the answer of both.
C24_SameExtraction ==
    C24_Extracted =>
        LET source_url == compose.contexts[1].metadata.source_url
        IN  /\ compose.result.answer =
                  extract_answer_simple(compose.query, compose.contexts,
                                        source_url)
            /\ compose.result.answer =
                  extract_from_context(compose.query, compose.contexts,
                                       source_url)

\* without a generation capability, an EMI query over a payment chunk is
\* answered with the chunk's raw content, where the fallback lists the plans
C24_EmiIgnored ==
    /\ compose.pc = "returned"
    /\ ~llm_handler
    /\ compose.query = "EMI options"
    /\ Len(compose.contexts) = 1
    /\ compose.contexts[1].metadata.type = "payment"
    /\ compose.result.answer =
          compose.contexts[1].content \o "\n\nSource: https://x/da"
    /\ extract_from_context(compose.query, compose.contexts, "https://x/da")
          = "EMI Options available:. - ₹11,000 x 3 months\n\nSource: https://x/da"

\* the ranked chunks that carry a batch_start_date, in rank order
C25_Dated(contexts) == SelectSeq(contexts, HasStartDate)

\* C25: in deterministic extraction, on either path, the answer to a query
\* containing "date" or "start" states the start date of the first ranked
\* chunk that carries one, and holds the "not available" sentence when no
\* ranked chunk carries one, whatever else the query asks for and whatever
\* the other extracted parts say.
C25_DateOrNotAvailable ==
    (/\ C24_Extracted
     /\ \/ In("date", lower(compose.query))
        \/ In("start", lower(compose.query))) =>
        IF C25_Dated(compose.contexts) # <<>>
        THEN In("The batch starts on "
                  \o C25_Dated(compose.contexts)[1].metadata.batch_start_date,
                compose.result.answer)
        ELSE In("The batch start date is not currently available",
                compose.result.answer)

\* the quota fallback answered a start-date query over a list without any
\* date with the EMI lines alone, one of which holds the word "starts"
C25_SentenceSuppressed ==
    /\ compose.pc = "returned"
    /\ llm_handler
    /\ compose.llm.kind = "error"
    /\ QuotaShaped(compose.llm.text)
    /\ compose.query = "EMI and start date"
    /\ C25_Dated(compose.contexts) = <<>>
    /\ compose.result.answer =
          "EMI Options available:. - EMI starts at ₹4,999/month\n\nSource: https://x/pm"

\* the text ends with the suffix
C26_EndsWith(text, suffix) ==
    /\ Len(suffix) <= Len(text)
    /\ SubSeq(text, Len(text) - Len(suffix) + 1, Len(text)) = suffix

\* C26: with no generation capability, the answer to a query containing
\* "price" or "cost" over a ranked list in which some chunk has a cost
\* states the cost of the first such chunk as a currency string, and ends
\* with "Source: " and the source_url of the first ranked chunk.
C26_CostAndSource ==
    (/\ compose.pc = "returned"
     /\ ~llm_handler
     /\ \/ In("price", lower(compose.query))
        \/ In("cost", lower(compose.query))
     /\ C13_Costs(compose.contexts) # <<>>) =>
        /\ In("₹" \o C13_Costs(compose.contexts)[1], compose.result.answer)
        /\ C26_EndsWith(compose.result.answer,
                        "Source: " \o compose.contexts[1].metadata.source_url)

\* a price query was answered from a list whose first chunk has no cost and
\* whose two costs differ
C26_SecondChunkCost ==
    /\ compose.pc = "returned"
    /\ ~llm_handler
    /\ compose.query = "Price of the course"
    /\ Len(compose.contexts) = 2
    /\ ~HasCost(compose.contexts[1])
    /\ HasCost(compose.contexts[2])
    /\ compose.contexts[1].metadata.source_url
          # compose.contexts[2].metadata.source_url

(***************************************************************************)
(* Properties of the collaborator calls of retrieve_context, checked under *)
(* SpecRetrieve.                                                           *)
(***************************************************************************)
\* C27: retrieve_context first obtains the embedding of the query and only
\* then searches the index, once, asking for exactly max(2n, 20) candidates
\* whatever n and the course filter are; the course filter is never handed
\* to the index as a metadata filter.
C27_EmbedThenOverFetch ==
    call.pc \in {"returned", "raised"} =>
        /\ Len(call.calls) \in 1..2
        /\ call.calls[1] = [op |-> "generate_embedding", text |-> call.query]
        /\ call.pc = "returned" => Len(call.calls) = 2
        /\ Len(call.calls) = 2 =>
              /\ call.calls[2].op = "search"
              /\ call.calls[2].n_results =
                    (IF 2 * call.n_results > 20 THEN 2 * call.n_results
                     ELSE 20)
              /\ call.calls[2].filter_dict = None

\* a call with a course filter and an n above 10 returned, its search
\* having asked for 2n candidates
C27_OverFetched ==
    /\ call.pc = "returned"
    /\ call.course_filter = "Data Analyst"
    /\ call.n_results = 15
    /\ call.calls[2].n_results = 30
    /\ Len(call.result) = 5

(***************************************************************************)
(* Properties of concurrent add_message calls, checked under SpecThreads.  *)
(***************************************************************************)
\* C28: whatever the interleaving of concurrent add_message calls on one
\* session, the calls that create it included, once they have all returned
\* the session's history holds all their messages, up to the capacity: the
\* history is the tail of the messages in the order they were appended.
C28_NoMessageDropped ==
    (\A t \in Threads : threads[t].pc = "idle") =>
        \A s \in SessionIds :
            appended[s] # <<>> =>
                /\ s \in DOMAIN conversations
                /\ conversations[s] =
                      SubSeq(appended[s],
                             Len(appended[s])
                                - Min(Len(appended[s]), max_messages) + 1,
                             Len(appended[s]))

\* two calls that both found the session missing have returned, and the
\* history, which has room for two messages, holds the second one only
C28_FirstMessageLost ==
    /\ \A t \in Threads : threads[t].pc = "idle"
    /\ max_messages = 2
    /\ Len(appended["s1"]) = 2
    /\ "s1" \in DOMAIN conversations
    /\ conversations["s1"] = <<appended["s1"][2]>>

(***************************************************************************)
(* Properties of answer_query over several requests of a session, checked  *)
(* under Spec.                                                             *)
(***************************************************************************)
\* some turn inside the memory window of the session names the course
C29_InWindow(s, keyword) ==
    /\ s \in DOMAIN conversations
    /\ \E i \in 1..Len(conversations[s]) :
          In(keyword, lower(conversations[s][i].content))

\* C29: while a turn containing "product management", a question or an
\* answer, is inside the memory window of a session, every answer_query of
\* the session resolves the course filter to "Product Management", whatever
\* course its own question names; the filter is another one only when no
\* such turn is in the window (it was evicted, or the session was cleared).
C29_ProductManagementSticks ==
    \A s \in SessionIds :
        req[s].pc \in {"retrieve", "format", "respond"} =>
            (req[s].course_filter = "Product Management"
                <=> C29_InWindow(s, "product management"))

\* a question that names Data Analyst only was resolved to Product
\* Management, which an earlier turn of the window names
C29_OtherCourseAsked ==
    /\ req["s1"].pc = "retrieve"
    /\ req["s1"].query = "Tell me about Data Analyst"
    /\ req["s1"].course_filter = "Product Management"
    /\ Len(conversations["s1"]) = 3
    /\ In("product management", lower(conversations["s1"][1].content))

(***************************************************************************)
(* Properties of the memory after a failed request, checked under          *)
(* SpecServer.                                                             *)
(***************************************************************************)
\* the roles of the last n turns of a history
C30_LastRoles(history, n) ==
    [i \in 1..n |-> history[Len(history) - n + i].role]

\* C30: a request whose embedding or index search raises leaves the memory
\* as it is at that moment: the session has gained the question and no
\* answer, and when the session's next request is answered its history ends
\* with that question, the new question and the answer, two user turns in a
\* row.
C30_NoRollback ==
    [][\A s \in SessionIds :
          LET f == req[s]
              g == req'[s]
          IN  /\ g.pc = "raised" =>
                    /\ Len(appended'[s]) = g.base + 1
                    /\ appended'[s][g.base + 1].role = "user"
                    /\ appended'[s][g.base + 1].content = g.query
                    /\ Newest(conversations', s) = appended'[s][g.base + 1]
              /\ (f.pc = "raised" /\ g.pc = "idle") =>
                    /\ g.previous = "raised"
                    /\ conversations'[s] = conversations[s]
                    /\ appended'[s] = appended[s]
              /\ (f.pc = "respond" /\ g.pc = "idle"
                    /\ f.previous = "raised") =>
                    /\ Len(conversations'[s]) >= 3
                    /\ C30_LastRoles(conversations'[s], 3)
                          = <<"user", "user", "assistant">>
                    /\ conversations'[s][Len(conversations'[s]) - 1].content
                          = f.query
      ]_vars

\* a request of a session failed, the next one was answered, and the
\* history is: question, question, answer
C30_TwoUserTurns ==
    \E s \in SessionIds :
        /\ req[s].pc = "idle"
        /\ req[s].previous = "answered"
        /\ Len(conversations[s]) = 3
        /\ C30_LastRoles(conversations[s], 3) = <<"user", "user", "assistant">>

====
